---------------------------- MODULE Spec2Model ----------------------------
(***************************************************************************)
(* Model of the workout tracker: the weight-suggestion engine and          *)
(* formatWeight (src/src/utils/seedUserData.ts, lines 307-397), the fresh  *)
(* draft and the save of LogWorkout (src/src/pages/LogWorkout.tsx), the    *)
(* data functions of src/src/utils/api.ts with the database function       *)
(* create_workout_log_atomic (src/README.md), and seedUserData with its    *)
(* two callers (src/src/contexts/AuthContext.tsx), and the workout draft   *)
(* that WorkoutProvider (src/unnamed/part_005) keeps in memory and in      *)
(* session storage, with the LogWorkout page that opens, resumes, edits,   *)
(* saves and cancels it.  Each part has its own                            *)
(* variables and its own specification; the parts a specification does     *)
(* not exercise stay idle.                                                 *)
(*                                                                         *)
(* Numbers.  The engine computes with JavaScript Numbers, i.e. IEEE-754    *)
(* binary64 values, and two of its steps are inexact:                      *)
(*     maxWeight * (1 + INCREASE_PERCENTAGE)       (line 381)              *)
(*     weight / increment                          (line 339)              *)
(* The model therefore carries these values as binary64 numbers and rounds *)
(* every arithmetic result to nearest, ties to even, as the hardware does. *)
(* A binary64 value is the record [sign, mant, exp] that stands for        *)
(* sign * mant * 2^exp, where mant is a natural number below 2^53 that is  *)
(* odd (or zero), so that each value has exactly one representation.       *)
(* mant is a little-endian sequence of limbs in base 2^15, because the     *)
(* model checker's integers are 32 bits wide.                              *)
(*                                                                         *)
(* Weights that enter or leave the engine are kept as integers counting    *)
(* quarter kilograms (40 kg is 160), which are exact binary64 values.      *)
(***************************************************************************)
EXTENDS Integers, Sequences, FiniteSets, Bags, TLC

(***************************************************************************)
(* Natural numbers of arbitrary size: little-endian limbs in base 2^15,    *)
(* no leading zero limb, zero is the empty sequence.                       *)
(***************************************************************************)
LimbBits == 15

Base == 2^LimbBits

RECURSIVE BigOfNat(_)
BigOfNat(n) == IF n = 0 THEN <<>> ELSE <<n % Base>> \o BigOfNat(n \div Base)

RECURSIVE BigToNat(_)
BigToNat(x) == IF x = <<>> THEN 0 ELSE Head(x) + Base * BigToNat(Tail(x))

RECURSIVE BigTrim(_)
BigTrim(x) ==
    IF x = <<>> THEN <<>>
    ELSE IF x[Len(x)] = 0 THEN BigTrim(SubSeq(x, 1, Len(x) - 1))
    ELSE x

RECURSIVE BitLen(_)
BitLen(n) == IF n = 0 THEN 0 ELSE 1 + BitLen(n \div 2)

BigBitLen(x) == IF x = <<>> THEN 0 ELSE LimbBits * (Len(x) - 1) + BitLen(x[Len(x)])

BigIsOdd(x) == x # <<>> /\ Head(x) % 2 = 1

\* x * k + carry, for 0 <= k < Base
RECURSIVE BigMulSmall(_, _, _)
BigMulSmall(x, k, carry) ==
    IF x = <<>> THEN BigOfNat(carry)
    ELSE LET t == Head(x) * k + carry
         IN  <<t % Base>> \o BigMulSmall(Tail(x), k, t \div Base)

RECURSIVE BigAddC(_, _, _)
BigAddC(x, y, carry) ==
    IF x = <<>> /\ y = <<>> THEN BigOfNat(carry)
    ELSE LET a == IF x = <<>> THEN 0 ELSE Head(x)
             b == IF y = <<>> THEN 0 ELSE Head(y)
             t == a + b + carry
         IN  <<t % Base>> \o BigAddC(IF x = <<>> THEN <<>> ELSE Tail(x),
                                     IF y = <<>> THEN <<>> ELSE Tail(y),
                                     t \div Base)

BigAdd(x, y) == BigTrim(BigAddC(x, y, 0))

RECURSIVE BigMul(_, _)
BigMul(x, y) ==
    IF x = <<>> \/ y = <<>> THEN <<>>
    ELSE LET rest == BigMul(x, Tail(y))
         IN  BigAdd(BigTrim(BigMulSmall(x, Head(y), 0)),
                    IF rest = <<>> THEN <<>> ELSE <<0>> \o rest)

\* quotient (untrimmed) and remainder of x divided by d, for 0 < d < Base
RECURSIVE BigDivRec(_, _)
BigDivRec(x, d) ==
    IF x = <<>> THEN [q |-> <<>>, r |-> 0]
    ELSE LET hi  == BigDivRec(Tail(x), d)
             cur == hi.r * Base + Head(x)
         IN  [q |-> <<cur \div d>> \o hi.q, r |-> cur % d]

BigDivSmall(x, d) ==
    LET qr == BigDivRec(x, d) IN [q |-> BigTrim(qr.q), r |-> qr.r]

\* x * 2^k
BigShl(x, k) ==
    IF x = <<>> THEN <<>>
    ELSE [i \in 1 .. (k \div LimbBits) |-> 0]
             \o BigTrim(BigMulSmall(x, 2^(k % LimbBits), 0))

\* x \div 2^k, and whether a non-zero bit was shifted out (or lost was set)
RECURSIVE BigShr(_, _, _)
BigShr(x, k, lost) ==
    IF x = <<>> \/ k = 0 THEN [q |-> x, lost |-> lost]
    ELSE IF k >= LimbBits THEN BigShr(Tail(x), k - LimbBits, lost \/ Head(x) # 0)
    ELSE LET qr == BigDivSmall(x, 2^k)
         IN  [q |-> qr.q, lost |-> lost \/ qr.r # 0]

\* the number of trailing zero bits of a non-zero x
RECURSIVE TrailingZeros(_)
TrailingZeros(n) == IF n % 2 = 1 THEN 0 ELSE 1 + TrailingZeros(n \div 2)

RECURSIVE BigTrailingZeros(_)
BigTrailingZeros(x) ==
    IF Head(x) = 0 THEN LimbBits + BigTrailingZeros(Tail(x))
    ELSE TrailingZeros(Head(x))

\* -1, 0 or 1 as x is below, equal to or above y
RECURSIVE BigCmpFrom(_, _, _)
BigCmpFrom(x, y, i) ==
    IF i = 0 THEN 0
    ELSE IF x[i] < y[i] THEN -1
    ELSE IF x[i] > y[i] THEN 1
    ELSE BigCmpFrom(x, y, i - 1)

BigCmp(x, y) ==
    IF Len(x) < Len(y) THEN -1
    ELSE IF Len(x) > Len(y) THEN 1
    ELSE BigCmpFrom(x, y, Len(x))

(***************************************************************************)
(* binary64 values.  A finite value is [sign, mant, exp]; the two          *)
(* infinities are [sign, inf] and NaN is [nan].  The model does not tell   *)
(* -0 from +0 (they are equal under every comparison the engine makes).    *)
(***************************************************************************)
MantBits == 53

\* a magnitude of 2^MaxExp or more is Infinity, and the smallest magnitude
\* above zero is 2^MinExp
MaxExp == 1024

MinExp == -1074

Zero == [sign |-> 1, mant |-> <<>>, exp |-> 0]

NaN == [nan |-> TRUE]

Infinity(sign) == [sign |-> sign, inf |-> TRUE]

IsNaN(x) == "nan" \in DOMAIN x

IsInf(x) == "inf" \in DOMAIN x

IsFinite(x) == "mant" \in DOMAIN x

IsZero(x) == IsFinite(x) /\ x.mant = <<>>

\* the canonical record of sign * n * 2^e for a non-zero n below 2^53, or
\* the infinity the value overflows to
Canon(sign, n, e) ==
    LET z == BigTrailingZeros(n)
    IN  IF BigBitLen(n) + e > MaxExp THEN Infinity(sign)
        ELSE [sign |-> sign, mant |-> BigShr(n, z, FALSE).q, exp |-> e + z]

\* The binary64 value nearest to sign * (n + f) * 2^e, where 0 <= f < 1 and
\* inexact says that f > 0: round to nearest, ties to even.  The bits
\* beyond the 53rd are dropped, and so are those below 2^MinExp (gradual
\* underflow).  When inexact holds n must have more than 53 bits, which
\* the callers ensure.
RoundToNearestEven(sign, n, e, inexact) ==
    IF n = <<>> THEN Zero
    ELSE LET over  == BigBitLen(n) - MantBits
             under == MinExp - e
             drop  == IF over > under THEN over ELSE under
             t     == BigShr(n, drop - 1, inexact)
             guard == BigIsOdd(t.q)
             q     == BigShr(t.q, 1, FALSE).q
             up    == guard /\ (t.lost \/ BigIsOdd(q))
             m     == IF up THEN BigAdd(q, <<1>>) ELSE q
         IN  IF drop <= 0 THEN Canon(sign, n, e)
             ELSE IF m = <<>> THEN Zero
             ELSE Canon(sign, m, e + drop)

DoubleOfInt(k) ==
    IF k = 0 THEN Zero
    ELSE Canon(IF k < 0 THEN -1 ELSE 1, BigOfNat(IF k < 0 THEN -k ELSE k), 0)

\* a * b
DMul(a, b) ==
    IF IsNaN(a) \/ IsNaN(b) THEN NaN
    ELSE IF IsInf(a) \/ IsInf(b)
         THEN IF IsZero(a) \/ IsZero(b) THEN NaN ELSE Infinity(a.sign * b.sign)
    ELSE RoundToNearestEven(a.sign * b.sign, BigMul(a.mant, b.mant), a.exp + b.exp, FALSE)

\* a + b, for operands that are not negative.  An operand whose leading bit
\* is more than 54 places below the other's is less than half a unit in the
\* last place of the other, so the sum rounds to the other operand.
DAdd(a, b) ==
    IF IsNaN(a) \/ IsNaN(b) THEN NaN
    ELSE IF IsInf(a) \/ IsInf(b) THEN Infinity(1)
    ELSE IF IsZero(a) THEN b
    ELSE IF IsZero(b) THEN a
    ELSE LET ta == BigBitLen(a.mant) + a.exp
             tb == BigBitLen(b.mant) + b.exp
             e  == IF a.exp < b.exp THEN a.exp ELSE b.exp
         IN  IF ta - tb > MantBits + 1 THEN a
             ELSE IF tb - ta > MantBits + 1 THEN b
             ELSE RoundToNearestEven(1,
                      BigAdd(BigShl(a.mant, a.exp - e), BigShl(b.mant, b.exp - e)),
                      e, FALSE)

\* a / b, for a divisor that is zero, not finite, or has an odd significand
\* below 2^15 (every integer and every increment of the model).  The
\* dividend is scaled by 2^75, so the quotient has at least 60 bits before
\* it is rounded.
DivScale == 5 * LimbBits

DDiv(a, b) ==
    IF IsNaN(a) \/ IsNaN(b) THEN NaN
    ELSE IF IsInf(a) THEN (IF IsInf(b) THEN NaN ELSE Infinity(a.sign * b.sign))
    ELSE IF IsInf(b) THEN Zero
    ELSE IF IsZero(b) THEN (IF IsZero(a) THEN NaN ELSE Infinity(a.sign))
    ELSE LET qr == BigDivSmall(BigShl(a.mant, DivScale), BigToNat(b.mant))
         IN  RoundToNearestEven(a.sign * b.sign, qr.q,
                                a.exp - b.exp - DivScale, qr.r # 0)

\* a > b: by the signs, then by the positions of the leading bits, then by
\* the significands
DGreater(a, b) ==
    IF IsNaN(a) \/ IsNaN(b) THEN FALSE
    ELSE IF IsInf(a) THEN a.sign = 1 /\ ~(IsInf(b) /\ b.sign = 1)
    ELSE IF IsInf(b) THEN b.sign = -1
    ELSE LET sa == IF IsZero(a) THEN 0 ELSE a.sign
             sb == IF IsZero(b) THEN 0 ELSE b.sign
             ta == BigBitLen(a.mant) + a.exp
             tb == BigBitLen(b.mant) + b.exp
             e  == IF a.exp < b.exp THEN a.exp ELSE b.exp
         IN  IF sa # sb THEN sa > sb
             ELSE IF sa = 0 THEN FALSE
             ELSE IF ta # tb THEN (sa = 1) = (ta > tb)
             ELSE sa * BigCmp(BigShl(a.mant, a.exp - e), BigShl(b.mant, b.exp - e)) > 0

\* Math.trunc in place of Math.round: the fraction is dropped
MathRound_Truncating(x) ==
    IF ~IsFinite(x) \/ IsZero(x) THEN x
    ELSE IF x.exp >= 0 THEN x
    ELSE RoundToNearestEven(x.sign, BigShr(x.mant, -x.exp, FALSE).q, 0, FALSE)

\* Math.round: the integer nearest to x, a tie going to the larger integer
MathRound(x) ==
    IF ~IsFinite(x) \/ IsZero(x) THEN x
    ELSE IF x.exp >= 0 THEN x
    ELSE LET t     == BigShr(x.mant, (-x.exp) - 1, FALSE)
             guard == BigIsOdd(t.q)
             fl    == BigShr(t.q, 1, FALSE).q
             up    == IF x.sign = 1 THEN guard ELSE guard /\ t.lost
         IN  RoundToNearestEven(x.sign, IF up THEN BigAdd(fl, <<1>>) ELSE fl, 0, FALSE)

\* a decimal literal of the source: the binary64 value nearest to digits / scale
NumberLiteral(digits, scale) == DDiv(DoubleOfInt(digits), DoubleOfInt(scale))

\* the binary64 value of a weight given in quarter kilograms (exact)
Weight(quarters) == DDiv(DoubleOfInt(quarters), DoubleOfInt(4))

\* the quarter kilograms of a finite binary64 value that is a multiple of 0.25
Quarters(x) ==
    IF IsZero(x) THEN 0 ELSE x.sign * BigToNat(BigShl(x.mant, x.exp + 2))

(***************************************************************************)
(* The suggestion engine.                                                  *)
(***************************************************************************)
Equipment == {"barbell", "dumbbell", "cable", "machine", "bodyweight", "other"}

\* 5% in place of 2.5%
INCREASE_PERCENTAGE_FivePercent == NumberLiteral(5, 100)

INCREASE_PERCENTAGE == NumberLiteral(25, 1000)

\* the dumbbell increment taken to be that of the other equipment
EQUIPMENT_INCREMENTS_DumbbellAsBarbell ==
    [barbell    |-> NumberLiteral(25, 10),
     dumbbell   |-> NumberLiteral(25, 10),
     cable      |-> NumberLiteral(25, 10),
     machine    |-> NumberLiteral(25, 10),
     bodyweight |-> DoubleOfInt(0),
     other      |-> NumberLiteral(25, 10)]

EQUIPMENT_INCREMENTS ==
    [barbell    |-> NumberLiteral(25, 10),
     dumbbell   |-> DoubleOfInt(2),
     cable      |-> NumberLiteral(25, 10),
     machine    |-> NumberLiteral(25, 10),
     bodyweight |-> DoubleOfInt(0),
     other      |-> NumberLiteral(25, 10)]

\* PreviousSet: weight (quarter kilograms) and reps are optional fields
NoFields == [f \in {} |-> 0]

PreviousSet(weights, reps) ==
    {[weight |-> w, reps |-> r] : w \in weights, r \in reps}
        \cup {[weight |-> w] : w \in weights}
        \cup {[reps |-> r] : r \in reps}
        \cup {NoFields}

\* SuggestionResult | null
Null == [null |-> TRUE]

SuggestionResult(weight, isIncrease) == [weight |-> weight, isIncrease |-> isIncrease]

\* the rounded count of increments is not scaled back to a weight
roundToIncrement_CountOnly(weight, increment) ==
    MathRound(DDiv(weight, increment))

roundToIncrement(weight, increment) ==
    DMul(MathRound(DDiv(weight, increment)), increment)

\* a zero or negative weight is kept as weight data
setsWithWeight_AnyRecorded(previousSets) ==
    SelectSeq(previousSets, LAMBDA s : "weight" \in DOMAIN s)

setsWithWeight(previousSets) ==
    SelectSeq(previousSets, LAMBDA s : "weight" \in DOMAIN s /\ s.weight > 0)

\* the first set's weight in place of the heaviest
maxWeight_FirstSet(sets) == sets[1].weight

\* the last set's weight in place of the heaviest
maxWeight_LastSet(sets) == sets[Len(sets)].weight

maxWeight(sets) ==
    CHOOSE w \in {sets[i].weight : i \in DOMAIN sets} :
        \A i \in DOMAIN sets : sets[i].weight <= w

\* some() in place of every()
hitTargetOnAllSets_Some(sets, targetReps) ==
    \E i \in DOMAIN sets :
        (IF "reps" \in DOMAIN sets[i] THEN sets[i].reps ELSE 0) >= targetReps

\* a set without a rep count is skipped instead of counted as zero reps
hitTargetOnAllSets_SkipUnrecorded(sets, targetReps) ==
    \A i \in DOMAIN sets :
        "reps" \in DOMAIN sets[i] => sets[i].reps >= targetReps

hitTargetOnAllSets(sets, targetReps) ==
    \A i \in DOMAIN sets :
        (IF "reps" \in DOMAIN sets[i] THEN sets[i].reps ELSE 0) >= targetReps

rawIncrease(maxW) == DMul(maxW, DAdd(DoubleOfInt(1), INCREASE_PERCENTAGE))

\* the rounded value is returned without the guard
finalWeight_Unguarded(suggested, maxW, increment) == suggested

finalWeight(suggested, maxW, increment) ==
    IF DGreater(suggested, maxW) THEN suggested ELSE DAdd(maxW, increment)

\* An execution of the function: the value it returns and, in order, the
\* increment of every call of roundToIncrement it made.
Returns(value) == [result |-> value, roundCalls |-> <<>>]

\* lines 365-389: the execution from a non-empty list of previous sets
traceFromSets(previousSets, targetReps, equipment) ==
    LET sets == setsWithWeight(previousSets)
    IN  IF Len(sets) = 0 THEN Returns(Null)
        ELSE LET maxW      == Weight(maxWeight(sets))
                 increment == EQUIPMENT_INCREMENTS[equipment]
             IN  IF hitTargetOnAllSets(sets, targetReps)
                 THEN [result |->
                           SuggestionResult(
                               Quarters(finalWeight(
                                   roundToIncrement(rawIncrease(maxW), increment),
                                   maxW, increment)),
                               TRUE),
                       roundCalls |-> <<[increment |-> increment]>>]
                 ELSE Returns(SuggestionResult(Quarters(maxW), FALSE))

suggestionFromSets(previousSets, targetReps, equipment) ==
    traceFromSets(previousSets, targetReps, equipment).result

\* the bodyweight check is missing
calculateSuggestedWeightTrace_NoBodyweightCheck(args) ==
    IF "previousSets" \notin DOMAIN args \/ Len(args.previousSets) = 0
    THEN Returns(Null)
    ELSE traceFromSets(args.previousSets, args.targetReps,
             IF "equipment" \in DOMAIN args THEN args.equipment ELSE "other")

\* args: [targetReps], with previousSets and equipment present unless the
\* caller passes undefined
calculateSuggestedWeightTrace(args) ==
    LET equipment == IF "equipment" \in DOMAIN args THEN args.equipment ELSE "other"
    IN  IF equipment = "bodyweight" THEN Returns(Null)
        ELSE IF "previousSets" \notin DOMAIN args \/ Len(args.previousSets) = 0
             THEN Returns(Null)
        ELSE traceFromSets(args.previousSets, args.targetReps, equipment)

\* the bodyweight check is missing
calculateSuggestedWeight_NoBodyweightCheck(args) ==
    calculateSuggestedWeightTrace_NoBodyweightCheck(args).result

calculateSuggestedWeight(args) == calculateSuggestedWeightTrace(args).result

(***************************************************************************)
(* The engine on weights of any magnitude: the weight of a set is a        *)
(* binary64 value and not a number of quarter kilograms.                   *)
(***************************************************************************)
\* a weight of 0 counts as weight data
setsWithWeight64_ZeroKept(previousSets) ==
    SelectSeq(previousSets,
              LAMBDA s : /\ "weight" \in DOMAIN s
                         /\ (DGreater(s.weight, Zero) \/ IsZero(s.weight)))

\* line 366
setsWithWeight64(previousSets) ==
    SelectSeq(previousSets,
              LAMBDA s : "weight" \in DOMAIN s /\ DGreater(s.weight, Zero))

\* line 372: Math.max of weights none of which is NaN
maxWeight64(sets) ==
    CHOOSE w \in {sets[i].weight : i \in DOMAIN sets} :
        \A i \in DOMAIN sets : ~DGreater(sets[i].weight, w)

\* lines 365-389
suggestionFromSets64(previousSets, targetReps, equipment) ==
    LET sets == setsWithWeight64(previousSets)
    IN  IF Len(sets) = 0 THEN Null
        ELSE LET maxW      == maxWeight64(sets)
                 increment == EQUIPMENT_INCREMENTS[equipment]
             IN  IF hitTargetOnAllSets(sets, targetReps)
                 THEN SuggestionResult(
                          finalWeight(roundToIncrement(rawIncrease(maxW), increment),
                                      maxW, increment),
                          TRUE)
                 ELSE SuggestionResult(maxW, FALSE)

\* lines 350-389
calculateSuggestedWeight64(args) ==
    LET equipment == IF "equipment" \in DOMAIN args THEN args.equipment ELSE "other"
    IN  IF equipment = "bodyweight" THEN Null
        ELSE IF "previousSets" \notin DOMAIN args \/ Len(args.previousSets) = 0
             THEN Null
        ELSE suggestionFromSets64(args.previousSets, args.targetReps, equipment)

(***************************************************************************)
(* Text, as the sequence of its characters, and the conversions between    *)
(* numbers and text: Number.prototype.toString and toFixed(1) as           *)
(* formatWeight uses them, and parseFloat as handleSave uses it.           *)
(***************************************************************************)
DigitChars == <<"0", "1", "2", "3", "4", "5", "6", "7", "8", "9">>

IsDigit(c) == \E d \in DOMAIN DigitChars : DigitChars[d] = c

DigitValue(c) == (CHOOSE d \in DOMAIN DigitChars : DigitChars[d] = c) - 1

\* the decimal digits of a natural number, without leading zeros
RECURSIVE DecimalDigits(_)
DecimalDigits(n) ==
    IF n < 10 THEN <<DigitChars[n + 1]>>
    ELSE Append(DecimalDigits(n \div 10), DigitChars[(n % 10) + 1])

\* weight % 1 === 0, for a finite weight
IsIntegral(x) == IsZero(x) \/ x.exp >= 0

SignChars(x) == IF ~IsZero(x) /\ x.sign = -1 THEN <<"-">> ELSE <<>>

\* x.toString() for an integral x below 10^21
NumberToString(x) ==
    SignChars(x) \o DecimalDigits(BigToNat(BigShl(x.mant, x.exp)))

\* x.toFixed(1) for a finite x below 10^21: n is the integer for which
\* n / 10 - |x| is closest to zero, the larger n when there are two
toFixed1(x) ==
    LET tenfold == BigTrim(BigMulSmall(x.mant, 10, 0))
        n == IF IsZero(x) THEN 0
             ELSE IF x.exp >= 0 THEN BigToNat(BigShl(tenfold, x.exp))
             ELSE LET t == BigShr(tenfold, (-x.exp) - 1, FALSE)
                  IN  BigToNat(BigShr(t.q, 1, FALSE).q) + (IF BigIsOdd(t.q) THEN 1 ELSE 0)
    IN  SignChars(x) \o DecimalDigits(n \div 10) \o <<".", DigitChars[(n % 10) + 1]>>

\* every weight is given one decimal place
formatWeight_AlwaysOneDecimal(weight) == toFixed1(weight)

formatWeight(weight) ==
    IF IsIntegral(weight) THEN NumberToString(weight) ELSE toFixed1(weight)

\* the number of digits text starts with, from position i on
RECURSIVE DigitRun(_, _)
DigitRun(text, i) ==
    IF i <= Len(text) /\ IsDigit(text[i]) THEN 1 + DigitRun(text, i + 1) ELSE 0

RECURSIVE DigitsValue(_)
DigitsValue(digits) ==
    IF digits = <<>> THEN 0
    ELSE 10 * DigitsValue(SubSeq(digits, 1, Len(digits) - 1)) + DigitValue(digits[Len(digits)])

InfinityChars == <<"I", "n", "f", "i", "n", "i", "t", "y">>

\* parseFloat(text) for a text without leading blanks and without exponent:
\* the longest prefix that is a decimal literal, rounded to binary64, or
\* Infinity with its sign when the text starts with that word
parseFloat(text) ==
    LET signed   == text # <<>> /\ text[1] \in {"-", "+"}
        negative == signed /\ text[1] = "-"
        start    == IF signed THEN 2 ELSE 1
        intLen   == DigitRun(text, start)
        hasPoint == start + intLen <= Len(text) /\ text[start + intLen] = "."
        fracLen  == IF hasPoint THEN DigitRun(text, start + intLen + 1) ELSE 0
        digits   == SubSeq(text, start, start + intLen - 1)
                        \o SubSeq(text, start + intLen + 1, start + intLen + fracLen)
        value    == DigitsValue(digits)
    IN  IF /\ Len(text) >= start + Len(InfinityChars) - 1
           /\ SubSeq(text, start, start + Len(InfinityChars) - 1) = InfinityChars
        THEN Infinity(IF negative THEN -1 ELSE 1)
        ELSE IF intLen + fracLen = 0 THEN NaN
        ELSE DDiv(DoubleOfInt(IF negative THEN -value ELSE value),
                  DoubleOfInt(10 ^ fracLen))

(***************************************************************************)
(* Bounds of the checked inputs.  A history of one set takes its weight    *)
(* from every quarter kilogram up to MaxWeight (and one negative value);   *)
(* longer histories take theirs from the multiples of 50 kg in that range. *)
(***************************************************************************)
MaxWeight == 500

MaxReps == 2

MaxTargetReps == 2

MaxSets == 2

FineWeights == (-1) .. MaxWeight

CoarseWeights == {w \in 0 .. MaxWeight : w % (50 * 4) = 0}

Reps == 0 .. MaxReps

Histories ==
    {<<>>}
        \cup {<<s>> : s \in PreviousSet(FineWeights, Reps)}
        \cup UNION {[1 .. n -> PreviousSet(CoarseWeights, Reps)] : n \in 2 .. MaxSets}

\* the examples of the feature document: 40, 60 and 100 kg on a barbell and
\* 25 kg dumbbells, each with the target met, and two sets of which the
\* heavier missed its target
DocumentedCalls ==
    {[targetReps |-> 8, equipment |-> "barbell",
      previousSets |-> <<[weight |-> 160, reps |-> 8]>>],
     [targetReps |-> 8, equipment |-> "barbell",
      previousSets |-> <<[weight |-> 240, reps |-> 8]>>],
     [targetReps |-> 8, equipment |-> "barbell",
      previousSets |-> <<[weight |-> 400, reps |-> 8]>>],
     [targetReps |-> 10, equipment |-> "dumbbell",
      previousSets |-> <<[weight |-> 100, reps |-> 10]>>],
     [targetReps |-> 8, equipment |-> "barbell",
      previousSets |-> <<[weight |-> 160, reps |-> 8], [weight |-> 168, reps |-> 7]>>]}

Calls ==
    LET required == [targetReps : 0 .. MaxTargetReps]
        withSets == required \cup
                    {[targetReps |-> r.targetReps, previousSets |-> h] :
                        r \in required, h \in Histories}
    IN  withSets \cup DocumentedCalls \cup
        {[f \in DOMAIN a \cup {"equipment"} |->
             IF f = "equipment" THEN e ELSE a[f]] : a \in withSets, e \in Equipment}

MaxRoundWeight == 240

MaxIncrement == 12

\* roundToIncrement(weight, increment) is applied to a weight of so many
\* quarter kilograms, or (scaled) to that weight times 1 + INCREASE_PERCENTAGE,
\* the value calculateSuggestedWeight passes
RoundCalls ==
    [weight : (-MaxRoundWeight) .. MaxRoundWeight,
     increment : 1 .. MaxIncrement,
     scaled : BOOLEAN]

RoundArgument(call) ==
    IF call.scaled THEN rawIncrease(Weight(call.weight)) ELSE Weight(call.weight)

MaxFormatted == 300

\* formatWeight is applied to number / scale: quarters (what the engine
\* returns), tenths and hundredths
FormatCalls == [number : (-MaxFormatted) .. MaxFormatted, scale : {4, 10, 100}]

FormatArgument(call) == DDiv(DoubleOfInt(call.number), DoubleOfInt(call.scale))

\* texts typed into a weight field, which is an <input type="text">
TypedWeights ==
    {<<"4", "2", ".", "5">>, <<"-", "1", ".", "5">>, <<".", "5">>, <<"8", "k", "g">>,
     <<"a", "b", "c">>, <<"-">>, InfinityChars, <<"-">> \o InfinityChars,
     <<"+">> \o InfinityChars, SubSeq(InfinityChars, 1, 7)}

(***************************************************************************)
(* LogWorkout: the inputs of one template item as loadTemplate builds them *)
(* for a fresh draft, and the sets handleSave makes of them.               *)
(***************************************************************************)
\* parseInt(text, 10) for a text without leading blanks: the digits the text
\* starts with, NaN when there is none
parseInt(text) ==
    LET signed == text # <<>> /\ text[1] \in {"-", "+"}
        start  == IF signed THEN 2 ELSE 1
        intLen == DigitRun(text, start)
        value  == DigitsValue(SubSeq(text, start, start + intLen - 1))
    IN  IF intLen = 0 THEN NaN
        ELSE DoubleOfInt(IF text[1] = "-" THEN -value ELSE value)

\* x || 0
OrZero(x) == IF IsNaN(x) \/ IsZero(x) THEN Zero ELSE x

\* the integer an integral binary64 value stands for
IntegerOf(x) == IF IsZero(x) THEN 0 ELSE x.sign * BigToNat(BigShl(x.mant, x.exp))

Tracking == {"load_reps", "reps_only", "duration"}

\* lines 78-81: the text the weight fields of the item are pre-filled with
\* previousData[item.exercise_id] is undefined for an exercise that is no
\* key of previousData
suggestedWeight(tmplItem, previousSetsOf) ==
    LET targetReps == IntegerOf(OrZero(parseInt(tmplItem.target_reps)))
        given      == [targetReps |-> targetReps, equipment |-> tmplItem.exercise_equipment]
        suggestion == calculateSuggestedWeight(
                          IF tmplItem.exercise_id \notin DOMAIN previousSetsOf THEN given
                          ELSE [f \in DOMAIN given \cup {"previousSets"} |->
                                   IF f = "previousSets"
                                   THEN previousSetsOf[tmplItem.exercise_id]
                                   ELSE given[f]])
    IN  IF suggestion = Null THEN <<>> ELSE formatWeight(Weight(suggestion.weight))

\* lines 77-98: the ExerciseInput of a template item
exerciseInputOf(tmplItem, previousSetsOf) ==
    [tracking |-> tmplItem.tracking,
     sets |-> [i \in 1 .. tmplItem.target_sets |->
                  [weight |-> suggestedWeight(tmplItem, previousSetsOf), reps |-> <<>>]]]

\* lines 215-220: a set as handleSave sends it, weight and reps being left
\* out when their text is empty
savedSetOf(set, index) ==
    LET fields == {"set_index"}
                      \cup (IF set.weight # <<>> THEN {"weight"} ELSE {})
                      \cup (IF set.reps # <<>> THEN {"reps"} ELSE {})
    IN  [f \in fields |->
            IF f = "set_index" THEN index
            ELSE IF f = "weight" THEN parseFloat(set.weight)
            ELSE parseInt(set.reps)]

\* lines 214-221: the sets of an exercise that have a weight or a rep count
savedSetsOf(input) ==
    SelectSeq([i \in DOMAIN input.sets |-> savedSetOf(input.sets[i], i)],
              LAMBDA set : "weight" \in DOMAIN set \/ "reps" \in DOMAIN set)

MaxTargetSets == 2

\* target_reps as the templates write it: a number, a number with a note,
\* no number at all
TargetRepsTexts ==
    {<<"1">>, <<"1", "2">>, <<"1", "2", " ", "/", " ", "s", "i", "d", "e">>,
     <<"A", "M", "R", "A", "P">>, <<>>}

TemplateItems ==
    [exercise_id : {"e1"},
     tracking : Tracking,
     exercise_equipment : Equipment,
     target_sets : 0 .. MaxTargetSets,
     target_reps : TargetRepsTexts]

\* what getLastExerciseSets returned: no entry for the exercise, or the sets
\* of an earlier workout, of which at least one has a weight
PreviousData ==
    {NoFields} \cup
    {[e \in {"e1"} |-> sets] :
        sets \in {<<s>> : s \in [weight : {100, 105, 160}, reps : {1, 12}]}
                 \cup {<<[weight |-> 160, reps |-> 12], [weight |-> 168, reps |-> 11]>>,
                       <<[weight |-> 160, reps |-> 12], [reps |-> 12]>>,
                       <<[weight |-> 160]>>}}

(***************************************************************************)
(* The tables workout_logs and exercise_logs, and the database function    *)
(* create_workout_log_atomic.  A row of exercise_logs is identified by its *)
(* workout log and the position of its item in p_items.                    *)
(***************************************************************************)
MaxItems == 3

ExerciseIds == {"e1", "e2"}

WorkoutLogIds == {"w1", "w2"}

EmptyTables == [workout_logs |-> {}, exercise_logs |-> {}]

\* the tables before the call: empty, or holding an earlier workout
TablesBefore ==
    {EmptyTables,
     [workout_logs |-> {"w1"},
      exercise_logs |-> {[workout_log_id |-> "w1", exercise_id |-> "e1", item |-> 1]}]}

LogCalls ==
    [items : UNION {[1 .. n -> ExerciseIds] : n \in 0 .. MaxItems},
     before : TablesBefore]

\* RETURNING id: an id no row of workout_logs has
NewWorkoutLogId(tables) == CHOOSE id \in WorkoutLogIds : id \notin tables.workout_logs

\* INSERT INTO workout_logs ... RETURNING id INTO v_workout_log_id
InsertWorkoutLog(tables, id) ==
    [tables EXCEPT !.workout_logs = @ \cup {id}]

\* INSERT INTO exercise_logs ... for the item at position i of p_items
InsertExerciseLog(tables, id, items, i) ==
    [tables EXCEPT !.exercise_logs =
         @ \cup {[workout_log_id |-> id, exercise_id |-> items[i], item |-> i]}]

\* the function's writes stay although it raised an error
Rollback_KeepsWrites(committed, working) == working

\* an error inside the function undoes every write the function made
Rollback(committed, working) == committed

(***************************************************************************)
(* The data functions of api.ts.  A response of the backend is             *)
(* [error |-> TRUE] or [data |-> rows].                                    *)
(***************************************************************************)
QueryError == [error |-> TRUE]

QueryData(rows) == [data |-> rows]

IsError(response) == "error" \in DOMAIN response

Threw == [threw |-> TRUE]

Resolved(value) == [value |-> value]

\* the exported functions other than getLastExerciseSets
DataFunctions ==
    {"getExercises", "getExerciseById", "createExercise", "updateExercise",
     "deleteExercise", "getTemplates", "getTemplateById", "createTemplate",
     "updateTemplate", "deleteTemplate", "getWorkoutLogs", "getWorkoutLogById",
     "getExerciseProgress", "createWorkoutLog", "updateWorkoutLog",
     "updateExerciseLog", "deleteWorkoutLog"}

\* api.ts 45, 162, 338: the functions that await getCurrentUserId first
CallsGetCurrentUserId == {"createExercise", "createTemplate", "createWorkoutLog"}

\* api.ts 95-116, 261-276: the functions that make a query for every row of
\* their first answer, all at once (Promise.all)
QueriesPerRow == {"getTemplates", "getWorkoutLogs"}

\* the number of queries the call awaits one after the other when none
\* fails; createTemplate and updateTemplate insert the items only when there
\* are any (api.ts 172, 220) and end with the two of getTemplateById
CheckedQueries(call) ==
    CASE call.fn = "createTemplate" -> 1 + (IF call.items > 0 THEN 1 ELSE 0) + 2
      [] call.fn = "updateTemplate" -> 2 + (IF call.items > 0 THEN 1 ELSE 0) + 2
      [] call.fn = "createWorkoutLog" -> 1 + 2
      [] call.fn \in {"getTemplateById", "getWorkoutLogById"} -> 2
      [] OTHER -> 1

\* if (error) throw new Error(error.message) after each query; nothing is
\* decided (Null) while answers are awaited
dataFunction(responses, awaited) ==
    IF \E i \in DOMAIN responses : IsError(responses[i]) THEN Threw
    ELSE IF awaited > 0 THEN Null
    ELSE Resolved("data")

\* .limit(10)
QueryLimit == 10

\* .order('workout_logs(date)', { ascending: false }): the orders the backend
\* may answer in, the later date first, rows of one date in any order
RECURSIVE OrderByDateDesc(_)
OrderByDateDesc(rows) ==
    IF rows = {} THEN {<<>>}
    ELSE UNION {{<<latest>> \o rest : rest \in OrderByDateDesc(rows \ {latest})} :
                   latest \in {r \in rows : \A q \in rows : q.date <= r.date}}

\* api.ts 396-403: the answers the query of one exercise may get from the
\* table
selectRecentLogs(table, exerciseId) ==
    {SubSeq(ordered, 1, IF Len(ordered) < QueryLimit THEN Len(ordered) ELSE QueryLimit) :
        ordered \in OrderByDateDesc({r \in table : r.exercise_id = exerciseId})}

\* a recorded weight of 0 counts as weight data
hasWeightData_AnyWeight(sets) ==
    \E i \in DOMAIN sets : "weight" \in DOMAIN sets[i]

\* api.ts 410
hasWeightData(sets) ==
    \E i \in DOMAIN sets : "weight" \in DOMAIN sets[i] /\ sets[i].weight > 0

\* api.ts 405-415: the positions of the logs of a response that have weight
\* data; none for an error and for no data
logsWithWeightData(response) ==
    IF IsError(response) THEN {}
    ELSE {i \in DOMAIN response.data : hasWeightData(response.data[i].sets)}

\* api.ts 389-420: the result has an entry for every exercise whose response
\* holds a log with weight data, the sets of the first such log
getLastExerciseSets(exerciseIds, responses) ==
    LET found == {e \in exerciseIds : logsWithWeightData(responses[e]) # {}}
    IN  Resolved([e \in found |->
            LET first == CHOOSE i \in logsWithWeightData(responses[e]) :
                             \A j \in logsWithWeightData(responses[e]) : i <= j
            IN  responses[e].data[first].sets])

MaxOlderLogs == 2

MaxRecentLogs == 11

SetsOfALog ==
    {<<[weight |-> 160, reps |-> 8]>>,
     <<[weight |-> 170, reps |-> 8], [reps |-> 8]>>,
     <<[reps |-> 12]>>,
     <<[weight |-> 0, reps |-> 5]>>}

SetsWithoutWeight == {<<[reps |-> 12]>>, <<[weight |-> 0, reps |-> 5]>>}

\* the logs of an exercise from the earliest to the latest: up to
\* MaxOlderLogs logs of any kind, then up to MaxRecentLogs logs without a
\* weight
LogHistories ==
    {older \o [i \in 1 .. k |-> u] :
        older \in UNION {[1 .. n -> SetsOfALog] : n \in 0 .. MaxOlderLogs},
        k \in 0 .. MaxRecentLogs,
        u \in SetsWithoutWeight}

\* rows of exercise_logs joined with the date of their workout (a DATE):
\* the logs of an exercise are of different days, or the two earliest are
\* of one day
RowsOf(exerciseId, history, twoADay) ==
    {[exercise_id |-> exerciseId, log |-> i,
      date |-> IF twoADay /\ i = 1 THEN 2 ELSE i,
      sets |-> history[i]] : i \in DOMAIN history}

MaxTemplateItems == 1

MaxRows == 2

\* the rows a workout adds that another caller commits while
\* getLastExerciseSets awaits its answers: later than every log, or of the
\* day of the latest
CommittedRows(table, sameDay) ==
    LET dates == {0} \cup {r.date : r \in table}
        last  == CHOOSE d \in dates : \A q \in dates : q <= d
        date  == IF sameDay THEN last ELSE last + 1
    IN  {[exercise_id |-> "e1", log |-> 100, date |-> date,
          sets |-> <<[weight |-> 170, reps |-> 8]>>],
         [exercise_id |-> "e2", log |-> 100, date |-> date,
          sets |-> <<[weight |-> 100, reps |-> 10]>>]}

ApiCalls ==
    {[fn |-> f] : f \in DataFunctions \ {"createTemplate", "updateTemplate"}}
        \cup {[fn |-> f, items |-> n] :
                  f \in {"createTemplate", "updateTemplate"}, n \in 0 .. MaxTemplateItems}
        \cup {[fn |-> "getLastExerciseSets", exerciseIds |-> ids,
               table |-> RowsOf("e1", h, twoADay) \cup RowsOf("e2", g, FALSE)] :
                  ids \in SUBSET ExerciseIds,
                  h \in LogHistories,
                  twoADay \in BOOLEAN,
                  g \in {<<>>, <<<<[weight |-> 100, reps |-> 10]>>>>, <<<<[reps |-> 10]>>>>}}

(***************************************************************************)
(* seedUserData: the default exercises and templates, and the rows of one  *)
(* user in the tables exercises, workout_templates and template_items.  A  *)
(* row carries the invocation that inserted it in place of its generated   *)
(* id.                                                                     *)
(***************************************************************************)
defaultExercises ==
    {"Barbell Bench Press", "Standing Overhead Press", "Cable Lateral Raise",
     "Triceps Pushdown", "Hanging Knee Raise", "Cable Woodchopper", "Pull-ups",
     "Chest Supported Row", "Incline Dumbbell Curl", "Hammer Curl", "Cable Crunch",
     "Dumbbell Side Bend"}

NoUserData == [exercises |-> {}, workout_templates |-> {}, template_items |-> {}]

\* .from('exercises').insert(exercisesToInsert)
insertExercises(data, seeding) ==
    [data EXCEPT !.exercises = @ \cup {[name |-> n, id |-> seeding] : n \in defaultExercises}]

\* .from('workout_templates').insert({name, description, user_id})
insertTemplate(data, name, seeding) ==
    [data EXCEPT !.workout_templates = @ \cup {[name |-> name, id |-> seeding]}]

\* .from('template_items').insert(items)
insertTemplateItems(data, name, seeding) ==
    [data EXCEPT !.template_items = @ \cup {[template |-> name, template_id |-> seeding]}]

\* lines 55-59, 66: existingExercises && existingExercises.length > 0
hasExistingExercises(data) == data.exercises # {}

\* the invocations of seedUserData for the user: AuthProvider calls it from
\* initSession and from each SIGNED_IN event
MaxSeedCalls == 2

SeedCalls == 1 .. MaxSeedCalls

(***************************************************************************)
(* Two calls of calculateSuggestedWeight that differ in the order of the   *)
(* previous sets or in a set without weight.                               *)
(***************************************************************************)
MaxOrderSets == 2

\* sets without weight data: weight absent, or not above zero
WeightlessSets ==
    {NoFields, [reps |-> 1], [weight |-> 0], [weight |-> 0, reps |-> 1],
     [weight |-> -4, reps |-> 2]}

OrderSets ==
    WeightlessSets \cup [weight : {160, 200}, reps : {1, 2}] \cup {[weight |-> 160]}

OrderCalls ==
    [previousSets : UNION {[1 .. n -> OrderSets] : n \in 0 .. MaxOrderSets},
     targetReps : {1, 2},
     equipment : {"barbell", "dumbbell", "bodyweight"}]

\* the sets in the order perm puts them
permuted(sets, perm) == [i \in DOMAIN sets |-> sets[perm[i]]]

\* the sets with set placed after the first k of them
withSetAdded(sets, set, k) ==
    SubSeq(sets, 1, k) \o <<set>> \o SubSeq(sets, k + 1, Len(sets))

\* the sets without the k-th
withSetRemoved(sets, k) ==
    SubSeq(sets, 1, k - 1) \o SubSeq(sets, k + 1, Len(sets))

(***************************************************************************)
(* WorkoutProvider (the draft of the workout in progress, kept in session  *)
(* storage by a debounced save) and the page LogWorkout that uses it.      *)
(* The state of the provider is [draft, storage, saveTimeout]: the draft   *)
(* or Null, the entry 'workout_draft' of session storage or Null, and the  *)
(* pending timer as the list of the argument of its callback (no timer:    *)
(* the empty list).                                                        *)
(***************************************************************************)
TemplateIds == {"t1", "t2"}

\* getTemplateById(id).items
templateItems ==
    [t1 |-> <<[exercise_id |-> "e1", tracking |-> "load_reps",
               exercise_equipment |-> "barbell", target_sets |-> 2,
               target_reps |-> <<"1", "2">>],
              [exercise_id |-> "e2", tracking |-> "reps_only",
               exercise_equipment |-> "bodyweight", target_sets |-> 1,
               target_reps |-> <<"A", "M", "R", "A", "P">>]>>,
     t2 |-> <<[exercise_id |-> "e1", tracking |-> "load_reps",
               exercise_equipment |-> "dumbbell", target_sets |-> 1,
               target_reps |-> <<"1", "2">>]>>]

\* new Date().toISOString().split('T')[0]
Today == "2024-05-01"

Dates == {Today, "2024-04-30"}

\* what getLastExerciseSets resolves to
WorkoutPreviousData ==
    {NoFields, [e \in {"e1"} |-> <<[weight |-> 160, reps |-> 12]>>]}

\* what the user types into a field of a set
TypedTexts == {<<>>, <<"8">>}

\* LogWorkout.tsx 87-97: the fields of an ExerciseInput; previousSets is
\* undefined for an exercise without previous data
exerciseInputWith(exerciseId, input, previousSetsOf) ==
    IF exerciseId \in DOMAIN previousSetsOf
    THEN [exerciseId |-> exerciseId, tracking |-> input.tracking,
          sets |-> input.sets, previousSets |-> previousSetsOf[exerciseId]]
    ELSE [exerciseId |-> exerciseId, tracking |-> input.tracking, sets |-> input.sets]

\* LogWorkout.tsx 77-98: the ExerciseInput of a template item
workoutInputOf(tmplItem, previousSetsOf) ==
    exerciseInputWith(tmplItem.exercise_id,
                      exerciseInputOf(tmplItem, previousSetsOf), previousSetsOf)

\* LogWorkout.tsx 100-106 and 152-158: the draft passed to setDraft
freshDraft(templateId, items, previousSetsOf, now) ==
    [templateId |-> templateId,
     workoutDate |-> Today,
     exerciseInputs |-> [i \in DOMAIN items |-> workoutInputOf(items[i], previousSetsOf)],
     startedAt |-> now]

\* JSON.stringify and JSON.parse of a draft: an undefined field is an absent
\* field before and after
JSONstringify(value) == [json |-> value]

JSONparse(stored) == stored.json

\* an entry that is not JSON
Corrupt == [corrupt |-> TRUE]

\* part_005 46-57, as the initial state of the provider.  A provider is
\* [draft, storage, saveTimeout, replaced]: replaced says that the call put
\* another object (or null for an object) into the state, which is what a
\* render compares
loadDraftFromStorage(stored) ==
    IF stored = Null
    THEN [draft |-> Null, storage |-> Null, saveTimeout |-> <<>>, replaced |-> FALSE]
    ELSE IF stored = Corrupt
    THEN [draft |-> Null, storage |-> Null, saveTimeout |-> <<>>, replaced |-> FALSE]
    ELSE [draft |-> JSONparse(stored), storage |-> stored, saveTimeout |-> <<>>,
          replaced |-> FALSE]

\* a pending timer is kept and the new draft is dropped
saveToStorage_FirstWins(p, draftToSave) ==
    IF p.saveTimeout # <<>> THEN p ELSE [p EXCEPT !.saveTimeout = <<draftToSave>>]

\* part_005 63-79: the pending timer is replaced by one for draftToSave
saveToStorage(p, draftToSave) == [p EXCEPT !.saveTimeout = <<draftToSave>>]

\* part_005 68-78: the callback of the timer; when setItem throws, the
\* error is logged and the entry stays as it was
saveTimeoutCallback(p, setItemThrows) ==
    [p EXCEPT !.storage = IF p.saveTimeout[1] = Null THEN Null
                          ELSE IF setItemThrows THEN @
                          ELSE JSONstringify(p.saveTimeout[1]),
              !.saveTimeout = <<>>]

\* part_005 81-84, called with a new object or with null
setDraft(p, newDraft) ==
    saveToStorage([p EXCEPT !.draft = newDraft,
                            !.replaced = newDraft # Null \/ p.draft # Null],
                  newDraft)

\* part_005 86-93
updateExerciseInputs(p, exerciseInputs) ==
    IF p.draft = Null THEN p
    ELSE LET updated == [p.draft EXCEPT !.exerciseInputs = exerciseInputs]
         IN  saveToStorage([p EXCEPT !.draft = updated, !.replaced = TRUE], updated)

\* part_005 95-102
updateWorkoutDate(p, date) ==
    IF p.draft = Null THEN p
    ELSE LET updated == [p.draft EXCEPT !.workoutDate = date]
         IN  saveToStorage([p EXCEPT !.draft = updated, !.replaced = TRUE], updated)

\* the pending timer is left running
clearWorkout_KeepsTimer(p) ==
    [p EXCEPT !.draft = Null, !.storage = Null, !.replaced = p.draft # Null]

\* part_005 104-114
clearWorkout(p) ==
    [draft |-> Null, storage |-> Null, saveTimeout |-> <<>>, replaced |-> p.draft # Null]

\* LogWorkout.tsx 41: draft?.exerciseInputs ?? []
exerciseInputsOf(p) == IF p.draft = Null THEN <<>> ELSE p.draft.exerciseInputs

\* LogWorkout.tsx 172-186; exerciseInputs is that of the render the handler
\* belongs to (line 41), prev that of the provider (part_005 87)
handleSetChange(p, exerciseInputs, exerciseIndex, setIndex, field, value) ==
    updateExerciseInputs(p,
        [exerciseInputs EXCEPT ![exerciseIndex].sets[setIndex][field] = value])

\* LogWorkout.tsx 188-195
addSet(p, exerciseInputs, exerciseIndex) ==
    updateExerciseInputs(p,
        [exerciseInputs EXCEPT
            ![exerciseIndex].sets = Append(@, [weight |-> <<>>, reps |-> <<>>])])

\* the last set of an exercise can be removed
removeSet_Unguarded(p, exerciseInputs, exerciseIndex, setIndex) ==
    [updated |-> TRUE,
     provider |-> updateExerciseInputs(p,
         [exerciseInputs EXCEPT
             ![exerciseIndex].sets = withSetRemoved(@, setIndex)])]

\* LogWorkout.tsx 197-206: whether updateExerciseInputs was called (line
\* 199), and the provider after the call
removeSet(p, exerciseInputs, exerciseIndex, setIndex) ==
    IF Len(exerciseInputs[exerciseIndex].sets) > 1
    THEN [updated |-> TRUE,
          provider |-> updateExerciseInputs(p,
              [exerciseInputs EXCEPT
                  ![exerciseIndex].sets = withSetRemoved(@, setIndex)])]
    ELSE [updated |-> FALSE, provider |-> p]

\* LogWorkout.tsx 53: a call of loadTemplate, waiting for getTemplateById,
\* with the templateId and the draft of the render its effect belongs to,
\* and the mount of the page whose state and ref it sets
loadTemplateRun(templateId, renderedDraft, mount) ==
    [fn |-> "loadTemplate", awaits |-> "getTemplateById",
     templateId |-> templateId, draft |-> renderedDraft, mount |-> mount]

\* LogWorkout.tsx 44-50, 115-116: the effect of a render in which
\* templateId or draft changed; runs is the bag of the calls in flight
effect(templateId, initialized, renderedDraft, mount, runs) ==
    IF templateId \in TemplateIds /\ initialized # templateId
    THEN runs (+) SetToBag({loadTemplateRun(templateId, renderedDraft, mount)})
    ELSE runs

\* sets an exercise of the draft may grow to, edits a session makes, and
\* requests for previous sets a session makes
MaxDraftSets == 2

MaxEdits == 1

MaxNow == 2

\* times the page is opened in a session
MaxMounts == 2

\* edits a session of SpecSets makes
MaxSetEdits == 3

VARIABLES pc, args, result, roundCalls, rargs, rounded, rerounded

\* WorkoutProvider: the draft, the entry of session storage, the pending
\* timer.  LogWorkout: the route (the location of the router: a template id
\* for /log/<id>), its state and its ref, the async functions in flight,
\* the handler or continuation that ran last, the clock, the number of
\* edits still to come, the number of times the page was mounted.  React:
\* the render that is on screen, whether the draft is another object than
\* the one on screen, and the effect of a render that has not run yet
VARIABLES draft, storage, saveTimeout, route, template, loading,
          showResumePrompt, initializedForTemplate, saving, inflight, called,
          now, edits, mounts, screen, replaced, effects

\* two calls of calculateSuggestedWeight: the position, the first call and
\* its result, the second call and its result
VARIABLES opc, ocall, oresult, ovariant, vresult

\* seedUserData: the position of every invocation, and the rows of the user
VARIABLES seedPc, userData

\* a call of a data function of api.ts: its position, the call, the responses
\* of the backend, what the function returned or that it threw
VARIABLES apc, acall, responses, outcome, atable

\* LogWorkout: its position, the template item and the previous sets of its
\* exercise, the ExerciseInput of the draft, the sets handleSave sends
VARIABLES dpc, item, previousData, exerciseInput, savedSets

\* createWorkoutLog: its position, its argument with the tables before the
\* call, the committed tables, the tables as the running function sees them,
\* and v_workout_log_id
VARIABLES lpc, lcall, tables, working, workoutLogId

\* formatWeight and parseFloat: the formatted number, its text, the number
\* parsed from the text
VARIABLES fpc, fcall, text, parsed

engineVars == <<pc, args, result, roundCalls, rargs, rounded, rerounded>>

formatVars == <<fpc, fcall, text, parsed>>

logVars == <<lpc, lcall, tables, working, workoutLogId>>

draftVars == <<dpc, item, previousData, exerciseInput, savedSets>>

apiVars == <<apc, acall, responses, outcome, atable>>

seedVars == <<seedPc, userData>>

orderVars == <<opc, ocall, oresult, ovariant, vresult>>

providerVars == <<draft, storage, saveTimeout>>

pageVars == <<route, template, loading, showResumePrompt, initializedForTemplate, saving>>

renderVars == <<screen, replaced, effects>>

workoutVars ==
    <<providerVars, pageVars, renderVars, inflight, called, now, edits, mounts>>

vars == <<engineVars, formatVars, logVars, draftVars, apiVars, seedVars, orderVars,
          workoutVars>>

EngineIdle ==
    /\ pc = "idle"
    /\ args = [targetReps |-> 0]
    /\ result = Null
    /\ roundCalls = <<>>
    /\ rargs = [weight |-> 0, increment |-> 1, scaled |-> FALSE]
    /\ rounded = 0
    /\ rerounded = 0

FormatIdle ==
    /\ fpc = "idle"
    /\ fcall = [number |-> 0, scale |-> 10]
    /\ text = <<>>
    /\ parsed = Zero

LogIdle ==
    /\ lpc = "idle"
    /\ lcall = [items |-> <<>>, before |-> EmptyTables]
    /\ tables = EmptyTables
    /\ working = EmptyTables
    /\ workoutLogId = "none"

DraftIdle ==
    /\ dpc = "idle"
    /\ item = [exercise_id |-> "e1", tracking |-> "load_reps",
               exercise_equipment |-> "other", target_sets |-> 0, target_reps |-> <<>>]
    /\ previousData = NoFields
    /\ exerciseInput = Null
    /\ savedSets = <<>>

ApiIdle ==
    /\ apc = "idle"
    /\ acall = [fn |-> "none"]
    /\ responses = <<>>
    /\ outcome = Null
    /\ atable = {}

SeedIdle ==
    /\ seedPc = <<>>
    /\ userData = NoUserData

OrderIdle ==
    /\ opc = "idle"
    /\ ocall = [previousSets |-> <<>>, targetReps |-> 1, equipment |-> "barbell"]
    /\ oresult = Null
    /\ ovariant = ocall
    /\ vresult = Null

\* a render: the route, the draft and the state of the page it shows
ScreenOf(r, d, t, l, p, s) ==
    [route |-> r, draft |-> d, template |-> t, loading |-> l,
     showResumePrompt |-> p, saving |-> s]

\* LogWorkout.tsx 34-38: the state of a page that is not mounted, and of a
\* page just mounted
PageUnmounted ==
    /\ template = "none"
    /\ loading = TRUE
    /\ showResumePrompt = FALSE
    /\ initializedForTemplate = "none"
    /\ saving = FALSE

WorkoutIdle ==
    /\ draft = Null
    /\ storage = Null
    /\ saveTimeout = <<>>
    /\ route = "/"
    /\ PageUnmounted
    /\ inflight = EmptyBag
    /\ called = [fn |-> "none"]
    /\ now = 0
    /\ edits = 0
    /\ mounts = 0
    /\ screen = ScreenOf("/", Null, "none", TRUE, FALSE, FALSE)
    /\ replaced = FALSE
    /\ effects = <<>>

\* every part of the state but the named one is idle
IdleExcept(part) ==
    /\ part # "engine" => EngineIdle
    /\ part # "format" => FormatIdle
    /\ part # "log" => LogIdle
    /\ part # "draft" => DraftIdle
    /\ part # "api" => ApiIdle
    /\ part # "seed" => SeedIdle
    /\ part # "order" => OrderIdle
    /\ part # "workout" => WorkoutIdle

notEngine ==
    <<formatVars, logVars, draftVars, apiVars, seedVars, orderVars,
      workoutVars>>

notFormat ==
    <<engineVars, logVars, draftVars, apiVars, seedVars, orderVars,
      workoutVars>>

notLog ==
    <<engineVars, formatVars, draftVars, apiVars, seedVars, orderVars,
      workoutVars>>

notDraft ==
    <<engineVars, formatVars, logVars, apiVars, seedVars, orderVars,
      workoutVars>>

notApi ==
    <<engineVars, formatVars, logVars, draftVars, seedVars, orderVars,
      workoutVars>>

notSeed ==
    <<engineVars, formatVars, logVars, draftVars, apiVars, orderVars,
      workoutVars>>

notOrder ==
    <<engineVars, formatVars, logVars, draftVars, apiVars, seedVars,
      workoutVars>>

notWorkout ==
    <<engineVars, formatVars, logVars, draftVars, apiVars, seedVars, orderVars>>

(***************************************************************************)
(* Spec: one call of calculateSuggestedWeight.                             *)
(***************************************************************************)
Init ==
    /\ pc = "call"
    /\ args \in Calls
    /\ result = Null
    /\ roundCalls = <<>>
    /\ rargs = [weight |-> 0, increment |-> 1, scaled |-> FALSE]
    /\ rounded = 0
    /\ rerounded = 0
    /\ IdleExcept("engine")

Calculate ==
    /\ pc = "call"
    /\ result' = calculateSuggestedWeight(args)
    /\ roundCalls' = calculateSuggestedWeightTrace(args).roundCalls
    /\ pc' = "returned"
    /\ UNCHANGED <<args, rargs, rounded, rerounded, notEngine>>

Next == Calculate

Spec == Init /\ [][Next]_vars

(***************************************************************************)
(* SpecWide: one call of calculateSuggestedWeight with weights from the    *)
(* whole range of binary64.                                                *)
(***************************************************************************)
\* Number.MAX_VALUE, (2^53 - 1) * 2^971
MAX_VALUE == [sign |-> 1, mant |-> <<32767, 32767, 32767, 255>>, exp |-> 971]

\* Number.MIN_VALUE, 2^-1074
MIN_VALUE == [sign |-> 1, mant |-> <<1>>, exp |-> MinExp]

\* 2^1023, about 8.99e307: half of the magnitude at which binary64
\* overflows
WeightBound == [sign |-> 1, mant |-> <<1>>, exp |-> MaxExp - 1]

\* weights of one set: 40 kg and 42.5 kg, the smallest number, the bound,
\* the numbers next to it on both sides, the largest number, the
\* infinities, NaN, zero and a negative weight
WideWeights ==
    {Weight(160), Weight(170), MIN_VALUE, WeightBound,
     [MAX_VALUE EXCEPT !.exp = @ - 1],
     [sign |-> 1, mant |-> <<1, 0, 0, 128>>, exp |-> 971],
     MAX_VALUE, Infinity(1), Infinity(-1), NaN, Zero, Weight(-1)}

\* weights of the sets of a longer history, whose reps are absent or MaxReps
WideWeightsOfSeveral == {Weight(160), WeightBound, MAX_VALUE, Infinity(1)}

WideHistories ==
    {<<>>}
        \cup {<<s>> : s \in PreviousSet(WideWeights, Reps)}
        \cup UNION {[1 .. n -> PreviousSet(WideWeightsOfSeveral, {MaxReps})] :
                        n \in 2 .. MaxSets}

WideCalls ==
    LET required == [targetReps : 0 .. MaxTargetReps]
        withSets == required \cup
                    {[targetReps |-> r.targetReps, previousSets |-> h] :
                        r \in required, h \in WideHistories}
    IN  withSets \cup
        {[f \in DOMAIN a \cup {"equipment"} |->
             IF f = "equipment" THEN e ELSE a[f]] : a \in withSets, e \in Equipment}

WideInit ==
    /\ pc = "call"
    /\ args \in WideCalls
    /\ result = Null
    /\ roundCalls = <<>>
    /\ rargs = [weight |-> 0, increment |-> 1, scaled |-> FALSE]
    /\ rounded = 0
    /\ rerounded = 0
    /\ IdleExcept("engine")

CalculateWide ==
    /\ pc = "call"
    /\ result' = calculateSuggestedWeight64(args)
    /\ pc' = "returned"
    /\ UNCHANGED <<args, roundCalls, rargs, rounded, rerounded, notEngine>>

WideNext == CalculateWide

SpecWide == WideInit /\ [][WideNext]_vars

(***************************************************************************)
(* SpecRound: roundToIncrement applied to a weight, and then to its own    *)
(* result.                                                                 *)
(***************************************************************************)
RoundInit ==
    /\ pc = "round"
    /\ rargs \in RoundCalls
    /\ rounded = 0
    /\ rerounded = 0
    /\ args = [targetReps |-> 0]
    /\ result = Null
    /\ roundCalls = <<>>
    /\ IdleExcept("engine")

Round ==
    /\ pc = "round"
    /\ rounded' = Quarters(roundToIncrement(RoundArgument(rargs), Weight(rargs.increment)))
    /\ pc' = "rounded"
    /\ UNCHANGED <<rargs, rerounded, args, result, roundCalls, notEngine>>

RoundAgain ==
    /\ pc = "rounded"
    /\ rerounded' = Quarters(roundToIncrement(Weight(rounded), Weight(rargs.increment)))
    /\ pc' = "rerounded"
    /\ UNCHANGED <<rargs, rounded, args, result, roundCalls, notEngine>>

RoundNext == Round \/ RoundAgain

SpecRound == RoundInit /\ [][RoundNext]_vars

(***************************************************************************)
(* SpecFormat: formatWeight renders a number, parseFloat reads the text    *)
(* back; or parseFloat reads a text that was typed.                        *)
(***************************************************************************)
FormatInit ==
    /\ fpc = "format"
    /\ fcall \in FormatCalls
    /\ text = <<>>
    /\ parsed = Zero
    /\ IdleExcept("format")

Format ==
    /\ fpc = "format"
    /\ text' = formatWeight(FormatArgument(fcall))
    /\ fpc' = "formatted"
    /\ UNCHANGED <<fcall, parsed, notFormat>>

Parse ==
    /\ fpc = "formatted"
    /\ parsed' = parseFloat(text)
    /\ fpc' = "parsed"
    /\ UNCHANGED <<fcall, text, notFormat>>

\* LogWorkout.tsx 218: handleSave parses a weight the user typed
ParseTyped ==
    /\ fpc = "format"
    /\ \E typed \in TypedWeights :
           /\ text' = typed
           /\ parsed' = parseFloat(typed)
    /\ fpc' = "typed"
    /\ UNCHANGED <<fcall, notFormat>>

FormatNext == Format \/ Parse \/ ParseTyped

SpecFormat == FormatInit /\ [][FormatNext]_vars

(***************************************************************************)
(* SpecLog: one call of createWorkoutLog.  The rpc runs the database       *)
(* function statement by statement on the tables as the function sees      *)
(* them; the tables change for everyone else when the function returns.    *)
(***************************************************************************)
LogInit ==
    /\ lpc = "getCurrentUserId"
    /\ lcall \in LogCalls
    /\ tables = lcall.before
    /\ working = lcall.before
    /\ workoutLogId = "none"
    /\ IdleExcept("log")

\* api.ts 10-14: throws when nobody is signed in
GetCurrentUserId ==
    /\ lpc = "getCurrentUserId"
    /\ \E user \in BOOLEAN : lpc' = IF user THEN "rpc" ELSE "threw"
    /\ UNCHANGED <<lcall, tables, working, workoutLogId, notLog>>

\* the first statement of the function, which may raise an error
RpcInsertWorkoutLog ==
    /\ lpc = "rpc"
    /\ \E raised \in BOOLEAN :
           IF raised
           THEN /\ tables' = Rollback(tables, working)
                /\ lpc' = "rpcError"
                /\ UNCHANGED <<working, workoutLogId>>
           ELSE /\ workoutLogId' = NewWorkoutLogId(working)
                /\ working' = InsertWorkoutLog(working, NewWorkoutLogId(working))
                /\ lpc' = "loop"
                /\ UNCHANGED tables
    /\ UNCHANGED <<lcall, notLog>>

InsertedItems ==
    Cardinality({r \in working.exercise_logs : r.workout_log_id = workoutLogId})

\* one round of the loop over p_items, which may raise an error
RpcInsertExerciseLog ==
    /\ lpc = "loop"
    /\ InsertedItems < Len(lcall.items)
    /\ \E raised \in BOOLEAN :
           IF raised
           THEN /\ tables' = Rollback(tables, working)
                /\ lpc' = "rpcError"
                /\ UNCHANGED working
           ELSE /\ working' = InsertExerciseLog(working, workoutLogId, lcall.items,
                                                 InsertedItems + 1)
                /\ UNCHANGED <<tables, lpc>>
    /\ UNCHANGED <<lcall, workoutLogId, notLog>>

\* RETURN v_workout_log_id: the writes are committed; the response may still
\* fail to arrive
RpcReturn ==
    /\ lpc = "loop"
    /\ InsertedItems = Len(lcall.items)
    /\ tables' = working
    /\ \E delivered \in BOOLEAN : lpc' = IF delivered THEN "getWorkoutLogById" ELSE "rpcError"
    /\ UNCHANGED <<lcall, working, workoutLogId, notLog>>

\* api.ts 349
ThrowRpcError ==
    /\ lpc = "rpcError"
    /\ lpc' = "threw"
    /\ UNCHANGED <<lcall, tables, working, workoutLogId, notLog>>

\* api.ts 351, 282-288: the read of the workout log, which may fail
GetWorkoutLogById ==
    /\ lpc = "getWorkoutLogById"
    /\ \E error \in BOOLEAN : lpc' = IF error THEN "threw" ELSE "selectExerciseLogs"
    /\ UNCHANGED <<lcall, tables, working, workoutLogId, notLog>>

\* api.ts 290-302: the read of its exercise logs, which may fail
SelectExerciseLogs ==
    /\ lpc = "selectExerciseLogs"
    /\ \E error \in BOOLEAN : lpc' = IF error THEN "threw" ELSE "returned"
    /\ UNCHANGED <<lcall, tables, working, workoutLogId, notLog>>

LogNext ==
    \/ GetCurrentUserId
    \/ RpcInsertWorkoutLog
    \/ RpcInsertExerciseLog
    \/ RpcReturn
    \/ ThrowRpcError
    \/ GetWorkoutLogById
    \/ SelectExerciseLogs

SpecLog == LogInit /\ [][LogNext]_vars

(***************************************************************************)
(* SpecDraft: LogWorkout builds the fresh draft of a template item and     *)
(* saves it untouched.                                                     *)
(***************************************************************************)
DraftInit ==
    /\ dpc = "loadTemplate"
    /\ item \in TemplateItems
    /\ previousData \in PreviousData
    /\ exerciseInput = Null
    /\ savedSets = <<>>
    /\ IdleExcept("draft")

\* LogWorkout.tsx 73-106: no draft exists, fresh inputs are created
LoadTemplate ==
    /\ dpc = "loadTemplate"
    /\ exerciseInput' = exerciseInputOf(item, previousData)
    /\ dpc' = "logging"
    /\ UNCHANGED <<item, previousData, savedSets, notDraft>>

\* LogWorkout.tsx 208-235: the untouched draft is saved
HandleSave ==
    /\ dpc = "logging"
    /\ savedSets' = savedSetsOf(exerciseInput)
    /\ dpc' = "saved"
    /\ UNCHANGED <<item, previousData, exerciseInput, notDraft>>

DraftNext == LoadTemplate \/ HandleSave

SpecDraft == DraftInit /\ [][DraftNext]_vars

(***************************************************************************)
(* SpecApi: one call of a data function of api.ts.  The function runs from *)
(* one await to the next in a step; each of its backend queries answers    *)
(* with data or with an error.  While getLastExerciseSets awaits the       *)
(* answers of its queries, another caller may commit a workout.            *)
(***************************************************************************)
ApiInit ==
    /\ apc = "call"
    /\ acall \in ApiCalls
    /\ responses = <<>>
    /\ outcome = Null
    /\ atable = IF acall.fn = "getLastExerciseSets" THEN acall.table ELSE {}
    /\ IdleExcept("api")

\* the function is called and runs to its first await: getCurrentUserId, or
\* its first query
CallDataFunction ==
    /\ apc = "call"
    /\ acall.fn \in DataFunctions
    /\ apc' = IF acall.fn \in CallsGetCurrentUserId THEN "getCurrentUserId" ELSE "query"
    /\ UNCHANGED <<acall, responses, outcome, atable, notApi>>

\* api.ts 10-14: auth.getUser answers; without a user the function throws
\* and sends no query
GetUserAnswers ==
    /\ apc = "getCurrentUserId"
    /\ \E user \in BOOLEAN :
           IF user THEN apc' = "query" /\ UNCHANGED outcome
           ELSE apc' = "done" /\ outcome' = Threw
    /\ UNCHANGED <<acall, responses, atable, notApi>>

\* the query the function awaits answers: an error is thrown; after data the
\* next query is sent, or the queries for the rows of the answer, or the
\* function returns
QueryAnswers ==
    /\ apc = "query"
    /\ \E response \in {QueryError} \cup
              {QueryData([i \in 1 .. n |-> "row"]) :
                  n \in IF acall.fn \in QueriesPerRow THEN 0 .. MaxRows ELSE {0}} :
           /\ responses' = Append(responses, response)
           /\ LET inTurn  == Len(responses') < CheckedQueries(acall)
                  awaited == IF IsError(response) THEN 0
                             ELSE IF inTurn THEN 1
                             ELSE Len(response.data)
              IN  /\ outcome' = dataFunction(responses', awaited)
                  /\ apc' = IF awaited = 0 THEN "done"
                            ELSE IF inTurn THEN "query"
                            ELSE "queries"
    /\ UNCHANGED <<acall, atable, notApi>>

\* the queries for the rows that are not answered yet
AwaitedRowQueries == Len(responses[1].data) - (Len(responses) - 1)

\* api.ts 95-116, 261-276: one of the queries for the rows answers; the
\* function throws at the first error (Promise.all) and returns after the
\* last answer
RowQueryAnswers ==
    /\ apc = "queries"
    /\ acall.fn \in QueriesPerRow
    /\ \E response \in {QueryError, QueryData(<<>>)} :
           /\ responses' = Append(responses, response)
           /\ outcome' = dataFunction(responses', AwaitedRowQueries - 1)
           /\ apc' = IF outcome' = Null THEN "queries" ELSE "done"
    /\ UNCHANGED <<acall, atable, notApi>>

\* api.ts 389-395: getLastExerciseSets sends a query for every requested
\* exercise; without any it returns
GetLastExerciseSets ==
    /\ apc = "call"
    /\ acall.fn = "getLastExerciseSets"
    /\ IF acall.exerciseIds = {}
       THEN apc' = "done" /\ outcome' = getLastExerciseSets({}, responses)
       ELSE apc' = "queries" /\ UNCHANGED outcome
    /\ UNCHANGED <<acall, responses, atable, notApi>>

\* api.ts 395-416: the query of one exercise answers with the recent logs of
\* the exercise as the table holds them now, or with an error; after the
\* last answer the function returns
ExerciseQueryAnswers ==
    /\ apc = "queries"
    /\ acall.fn = "getLastExerciseSets"
    /\ \E e \in acall.exerciseIds \ DOMAIN responses :
         \E response \in {QueryError} \cup
                 {QueryData(rows) : rows \in selectRecentLogs(atable, e)} :
           /\ responses' = [x \in DOMAIN responses \cup {e} |->
                                IF x = e THEN response ELSE responses[x]]
           /\ IF DOMAIN responses' = acall.exerciseIds
              THEN /\ outcome' = getLastExerciseSets(acall.exerciseIds, responses')
                   /\ apc' = "done"
              ELSE UNCHANGED <<outcome, apc>>
    /\ UNCHANGED <<acall, atable, notApi>>

\* another caller's createWorkoutLog commits while the answers are awaited
WorkoutCommitted ==
    /\ apc = "queries"
    /\ acall.fn = "getLastExerciseSets"
    /\ atable = acall.table
    /\ \E sameDay \in BOOLEAN : atable' = atable \cup CommittedRows(atable, sameDay)
    /\ UNCHANGED <<apc, acall, responses, outcome, notApi>>

ApiNext ==
    \/ CallDataFunction
    \/ GetUserAnswers
    \/ QueryAnswers
    \/ RowQueryAnswers
    \/ GetLastExerciseSets
    \/ ExerciseQueryAnswers
    \/ WorkoutCommitted

SpecApi == ApiInit /\ [][ApiNext]_vars

(***************************************************************************)
(* SpecSeed: the invocations of seedUserData for one new user.  Each       *)
(* invocation runs from one await to the next in a step; the steps of      *)
(* different invocations interleave.  Every request may fail.              *)
(***************************************************************************)
SeedInit ==
    /\ seedPc = [c \in SeedCalls |-> "notCalled"]
    /\ userData = NoUserData
    /\ IdleExcept("seed")

SeedGoes(c, position) == seedPc' = [seedPc EXCEPT ![c] = position]

\* AuthContext.tsx 45-47, 63-65: the invocation starts and sends its select
CallSeedUserData(c) ==
    /\ seedPc[c] = "notCalled"
    /\ SeedGoes(c, "checkExisting")
    /\ UNCHANGED <<userData, notSeed>>

\* lines 55-70: the select answers
CheckExisting(c) ==
    /\ seedPc[c] = "checkExisting"
    /\ \E checkError \in BOOLEAN :
           SeedGoes(c, IF checkError \/ hasExistingExercises(userData) THEN "returned"
                       ELSE "insertExercises")
    /\ UNCHANGED <<userData, notSeed>>

\* lines 78-86
InsertExercises(c) ==
    /\ seedPc[c] = "insertExercises"
    /\ \E exercisesError \in BOOLEAN :
           IF exercisesError
           THEN SeedGoes(c, "returned") /\ UNCHANGED userData
           ELSE SeedGoes(c, "insertPush") /\ userData' = insertExercises(userData, c)
    /\ UNCHANGED notSeed

\* lines 95-108
InsertPushTemplate(c) ==
    /\ seedPc[c] = "insertPush"
    /\ \E pushError \in BOOLEAN :
           IF pushError
           THEN SeedGoes(c, "returned") /\ UNCHANGED userData
           ELSE SeedGoes(c, "insertPushItems") /\ userData' = insertTemplate(userData, "Push", c)
    /\ UNCHANGED notSeed

\* lines 110-123: a failure is logged and the seeding goes on
InsertPushItems(c) ==
    /\ seedPc[c] = "insertPushItems"
    /\ \E pushItemsError \in BOOLEAN :
           userData' = IF pushItemsError THEN userData
                       ELSE insertTemplateItems(userData, "Push", c)
    /\ SeedGoes(c, "insertPull")
    /\ UNCHANGED notSeed

\* lines 125-139
InsertPullTemplate(c) ==
    /\ seedPc[c] = "insertPull"
    /\ \E pullError \in BOOLEAN :
           IF pullError
           THEN SeedGoes(c, "returned") /\ UNCHANGED userData
           ELSE SeedGoes(c, "insertPullItems") /\ userData' = insertTemplate(userData, "Pull", c)
    /\ UNCHANGED notSeed

\* lines 141-154
InsertPullItems(c) ==
    /\ seedPc[c] = "insertPullItems"
    /\ \E pullItemsError \in BOOLEAN :
           userData' = IF pullItemsError THEN userData
                       ELSE insertTemplateItems(userData, "Pull", c)
    /\ SeedGoes(c, "returned")
    /\ UNCHANGED notSeed

SeedNext ==
    \E c \in SeedCalls :
        \/ CallSeedUserData(c)
        \/ CheckExisting(c)
        \/ InsertExercises(c)
        \/ InsertPushTemplate(c)
        \/ InsertPushItems(c)
        \/ InsertPullTemplate(c)
        \/ InsertPullItems(c)

SpecSeed == SeedInit /\ [][SeedNext]_vars

(***************************************************************************)
(* Vocabulary of the properties.                                           *)
(***************************************************************************)
Returned == pc = "returned"

GivenSets == IF "previousSets" \in DOMAIN args THEN args.previousSets ELSE <<>>

GivenEquipment == IF "equipment" \in DOMAIN args THEN args.equipment ELSE "other"

HasPositiveWeight(s) == "weight" \in DOMAIN s /\ s.weight > 0

PositiveSets == {i \in DOMAIN GivenSets : HasPositiveWeight(GivenSets[i])}

RecordedReps(s) == IF "reps" \in DOMAIN s THEN s.reps ELSE 0

IsIncrease == result # Null /\ result.isIncrease

IsMaintain == result # Null /\ ~result.isIncrease

\* the heaviest positive weight of the previous sets, when there is one
HeaviestIs(w) ==
    /\ \E i \in PositiveSets : GivenSets[i].weight = w
    /\ \A i \in PositiveSets : GivenSets[i].weight <= w

\* the increments of the equipment table, in quarter kilograms
TableIncrement(equipment) == IF equipment = "dumbbell" THEN 8 ELSE 10

(***************************************************************************)
(* C1: for equipment other than bodyweight and previous sets with at least *)
(* one set of weight > 0, the result is an increase if and only if every   *)
(* set of weight > 0 has reps (absent reps counting as 0) >= targetReps;   *)
(* otherwise the result is a maintain.                                     *)
(***************************************************************************)
C1_IncreaseIffEveryWeightedSetHitTarget ==
    (Returned /\ GivenEquipment # "bodyweight" /\ PositiveSets # {}) =>
        /\ result # Null
        /\ result.isIncrease <=>
               \A i \in PositiveSets : RecordedReps(GivenSets[i]) >= args.targetReps

\* one weighted set below the target blocks the increase although another
\* weighted set exceeded the target
C1_Witness ==
    /\ Returned
    /\ IsMaintain
    /\ \E i, j \in PositiveSets :
           /\ RecordedReps(GivenSets[i]) < args.targetReps
           /\ RecordedReps(GivenSets[j]) > args.targetReps

(***************************************************************************)
(* C2: whenever the result is an increase, its weight is strictly greater  *)
(* than the largest positive weight among the previous sets.               *)
(***************************************************************************)
C2_IncreaseExceedsMaxWeight ==
    (Returned /\ IsIncrease) =>
        \A i \in PositiveSets : result.weight > GivenSets[i].weight

\* the guard acted: 40 kg on a barbell rounds back to 40 kg and 42.5 kg is
\* returned
C2_Witness ==
    /\ Returned
    /\ IsIncrease
    /\ GivenEquipment = "barbell"
    /\ HeaviestIs(160)
    /\ Quarters(roundToIncrement(rawIncrease(Weight(160)), Weight(10))) = 160
    /\ result.weight = 170

(***************************************************************************)
(* C3: whenever the result is a maintain, its weight is exactly the        *)
(* maximum over the sets of weight > 0; and no result at all is lower than *)
(* the heaviest previous weight.                                           *)
(***************************************************************************)
C3_MaintainReturnsMaxWeight ==
    /\ (Returned /\ IsMaintain) => HeaviestIs(result.weight)
    /\ (Returned /\ result # Null) =>
           \A i \in PositiveSets : result.weight >= GivenSets[i].weight

\* a maintain where the heaviest set is not the last one
C3_Witness ==
    /\ Returned
    /\ IsMaintain
    /\ Len(GivenSets) >= 2
    /\ HasPositiveWeight(GivenSets[Len(GivenSets)])
    /\ GivenSets[Len(GivenSets)].weight < result.weight

(***************************************************************************)
(* C4: when every set of weight > 0 hit the target, the returned weight is *)
(* R if R > maxWeight and maxWeight + increment otherwise, where           *)
(* R = roundToIncrement(maxWeight * 1.025, increment) and increment is 2   *)
(* for dumbbell and 2.5 for barbell, cable, machine, other and for an      *)
(* omitted equipment.                                                      *)
(***************************************************************************)
C4_Rounded(maxW, incr) ==
    Quarters(roundToIncrement(DMul(Weight(maxW), NumberLiteral(1025, 1000)), Weight(incr)))

C4_IncreaseFormula ==
    (/\ Returned
     /\ GivenEquipment # "bodyweight"
     /\ PositiveSets # {}
     /\ \A i \in PositiveSets : RecordedReps(GivenSets[i]) >= args.targetReps) =>
        /\ result # Null
        /\ \A i \in PositiveSets :
               HeaviestIs(GivenSets[i].weight) =>
                   LET w    == GivenSets[i].weight
                       incr == TableIncrement(GivenEquipment)
                       R    == C4_Rounded(w, incr)
                   IN  result.weight = IF R > w THEN R ELSE w + incr

\* 120 kg dumbbells: 120 * 1.025 is 122.99999999999999 in binary64, so R is
\* 122 kg, above 120 kg, and is returned
C4_Witness ==
    /\ Returned
    /\ IsIncrease
    /\ GivenEquipment = "dumbbell"
    /\ HeaviestIs(480)
    /\ result.weight = 488

(***************************************************************************)
(* C5: for equipment bodyweight the result is null, whatever the previous  *)
(* sets and the target.                                                    *)
(***************************************************************************)
C5_BodyweightReturnsNull ==
    (Returned /\ GivenEquipment = "bodyweight") => result = Null

\* a bodyweight call whose previous sets carry weight and hit the target
C5_Witness ==
    /\ Returned
    /\ GivenEquipment = "bodyweight"
    /\ PositiveSets # {}
    /\ \A i \in PositiveSets : RecordedReps(GivenSets[i]) >= args.targetReps
    /\ result = Null

(***************************************************************************)
(* C6: for every equipment and target, the result is null when the         *)
(* previous sets are absent, empty, or hold only sets whose weight is      *)
(* absent or <= 0.                                                         *)
(***************************************************************************)
C6_NoWeightDataReturnsNull ==
    (Returned /\ PositiveSets = {}) => result = Null

\* sets with reps on record, one without a weight and one of weight 0
C6_Witness ==
    /\ Returned
    /\ GivenEquipment # "bodyweight"
    /\ PositiveSets = {}
    /\ \E i, j \in DOMAIN GivenSets :
           /\ "weight" \notin DOMAIN GivenSets[i]
           /\ "weight" \in DOMAIN GivenSets[j]
           /\ RecordedReps(GivenSets[i]) >= args.targetReps
           /\ RecordedReps(GivenSets[j]) >= args.targetReps
    /\ result = Null

(***************************************************************************)
(* C7 as stated: for every non-negative targetReps, if a set of weight > 0 *)
(* has no recorded reps, the result is not an increase.                    *)
(***************************************************************************)
C7_UnrecordedRepsBlockIncrease ==
    (Returned /\ \E i \in PositiveSets : "reps" \notin DOMAIN GivenSets[i]) =>
        ~IsIncrease

(***************************************************************************)
(* C7 amended: for every targetReps >= 1, if a set of weight > 0 has no    *)
(* recorded reps, the result is not an increase (with targetReps = 0 the   *)
(* zero reps such a set counts for meet the target).                       *)
(***************************************************************************)
C7_UnrecordedRepsBlockIncreaseForPositiveTarget ==
    (/\ Returned
     /\ args.targetReps >= 1
     /\ \E i \in PositiveSets : "reps" \notin DOMAIN GivenSets[i]) =>
        ~IsIncrease

\* a maintain caused only by a weighted set without reps
C7_Witness ==
    /\ Returned
    /\ args.targetReps >= 1
    /\ IsMaintain
    /\ \E i \in PositiveSets : "reps" \notin DOMAIN GivenSets[i]
    /\ \A i \in PositiveSets :
           "reps" \in DOMAIN GivenSets[i] => GivenSets[i].reps >= args.targetReps

(***************************************************************************)
(* C8: if any set passed in previousSets, with or without a weight, has    *)
(* reps below targetReps, the result is not an increase.                   *)
(***************************************************************************)
C8_AnySetBelowTargetBlocksIncrease ==
    (Returned /\ \E i \in DOMAIN GivenSets :
                     /\ "reps" \in DOMAIN GivenSets[i]
                     /\ GivenSets[i].reps < args.targetReps) =>
        ~IsIncrease

(***************************************************************************)
(* C9: for a weight >= 0 and a positive increment, roundToIncrement        *)
(* returns the multiple of the increment nearest to the weight (no farther *)
(* than half an increment), and the larger multiple when the weight lies   *)
(* exactly halfway between two multiples.                                  *)
(***************************************************************************)
C9_RoundsToNearestMultiple ==
    (pc # "round" /\ ~rargs.scaled /\ rargs.weight >= 0) =>
        /\ rounded % rargs.increment = 0
        /\ 2 * (rounded - rargs.weight) <= rargs.increment
        /\ 2 * (rargs.weight - rounded) <= rargs.increment
        /\ 2 * (rargs.weight % rargs.increment) = rargs.increment =>
               rounded > rargs.weight

\* 1.25 kg lies halfway between 0 and 2.5 kg and is rounded to 2.5 kg
C9_Witness ==
    /\ pc = "rounded"
    /\ ~rargs.scaled
    /\ rargs.weight = 5
    /\ rargs.increment = 10
    /\ rounded = 10

(***************************************************************************)
(* C10: for the increments of the equipment table (2.5 and 2),             *)
(* roundToIncrement returns k * increment unchanged for every integer k,   *)
(* and rounding a rounded value again returns it unchanged.                *)
(***************************************************************************)
C10_RoundingIsIdempotent ==
    (pc # "round" /\ rargs.increment \in {8, 10}) =>
        /\ (~rargs.scaled /\ rargs.weight % rargs.increment = 0) =>
               rounded = rargs.weight
        /\ pc = "rerounded" => rerounded = rounded

\* -7.5 kg, a negative multiple of 2.5 kg, is returned unchanged by the first
\* and by the second rounding
C10_Witness ==
    /\ pc = "rerounded"
    /\ ~rargs.scaled
    /\ rargs.increment = 10
    /\ rargs.weight = -30
    /\ rounded = -30
    /\ rerounded = -30

(***************************************************************************)
(* C11: a single previous set that met its target gives the documented     *)
(* increases: on a barbell 40 kg -> 42.5 kg, 60 kg -> 62.5 kg and          *)
(* 100 kg -> 102.5 kg, with dumbbells 25 kg -> 26 kg, each with            *)
(* isIncrease = true; and the sets [{40 kg, 8 reps}, {42 kg, 7 reps}] with *)
(* target 8 on a barbell give {weight: 42, isIncrease: false}.             *)
(***************************************************************************)
SingleSetMeetingTarget(w) ==
    /\ Len(GivenSets) = 1
    /\ HasPositiveWeight(GivenSets[1])
    /\ GivenSets[1].weight = w
    /\ RecordedReps(GivenSets[1]) >= args.targetReps

C11_DocumentedExamples ==
    Returned =>
        /\ (GivenEquipment = "barbell" /\ SingleSetMeetingTarget(160)) =>
               result = SuggestionResult(170, TRUE)
        /\ (GivenEquipment = "barbell" /\ SingleSetMeetingTarget(240)) =>
               result = SuggestionResult(250, TRUE)
        /\ (GivenEquipment = "barbell" /\ SingleSetMeetingTarget(400)) =>
               result = SuggestionResult(410, TRUE)
        /\ (GivenEquipment = "dumbbell" /\ SingleSetMeetingTarget(100)) =>
               result = SuggestionResult(104, TRUE)
        /\ (/\ GivenEquipment = "barbell"
            /\ args.targetReps = 8
            /\ GivenSets = <<[weight |-> 160, reps |-> 8], [weight |-> 168, reps |-> 7]>>) =>
               result = SuggestionResult(168, FALSE)

\* the two documented sets, of which the heavier one missed the target of 8
C11_Witness ==
    /\ Returned
    /\ GivenEquipment = "barbell"
    /\ args.targetReps = 8
    /\ GivenSets = <<[weight |-> 160, reps |-> 8], [weight |-> 168, reps |-> 7]>>
    /\ result = SuggestionResult(168, FALSE)

WeightsWithinBound ==
    \A i \in DOMAIN GivenSets :
        "weight" \in DOMAIN GivenSets[i]
            => ~DGreater(GivenSets[i].weight, WeightBound)

C14_RoundingIncrementIsPositive ==
    \A i \in DOMAIN roundCalls :
        /\ GivenEquipment # "bodyweight"
        /\ DGreater(roundCalls[i].increment, Zero)

\* the rounding call made for dumbbells, with the increment 2 kg
C14_Witness ==
    /\ Returned
    /\ GivenEquipment = "dumbbell"
    /\ Len(roundCalls) = 1
    /\ roundCalls[1].increment = Weight(8)

(***************************************************************************)
(* C15: formatWeight renders an integral weight with no decimal point and  *)
(* a non-integral weight with exactly one digit after the decimal point    *)
(* (42 -> "42", 26.5 -> "26.5", 62.5 -> "62.5"); and for every weight with *)
(* at most one decimal place, parsing the rendered text gives the same     *)
(* weight back.                                                            *)
(***************************************************************************)
Formatted == fpc \in {"formatted", "parsed"}

\* the formatted number / scale is a whole number, or a number of tenths
FormatsWhole == fcall.number % fcall.scale = 0

FormatsTenths == (10 * fcall.number) % fcall.scale = 0

PointCount == Cardinality({i \in DOMAIN text : text[i] = "."})

C15_FormatWeightRoundTrips ==
    /\ (Formatted /\ FormatsWhole) => PointCount = 0
    /\ (Formatted /\ ~FormatsWhole) =>
           /\ PointCount = 1
           /\ Len(text) >= 3
           /\ text[Len(text) - 1] = "."
           /\ IsDigit(text[Len(text)])
           /\ IsDigit(text[Len(text) - 2])
    /\ (Formatted /\ fcall = [number |-> 42, scale |-> 10 ]) => text = <<"4", ".", "2">>
    /\ (Formatted /\ fcall = [number |-> 168, scale |-> 4]) => text = <<"4", "2">>
    /\ (Formatted /\ fcall = [number |-> 106, scale |-> 4]) => text = <<"2", "6", ".", "5">>
    /\ (Formatted /\ fcall = [number |-> 250, scale |-> 4]) => text = <<"6", "2", ".", "5">>
    /\ (fpc = "parsed" /\ FormatsTenths) => parsed = FormatArgument(fcall)

\* 26.1, which is no binary fraction, is rendered as "26.1" and read back as
\* the same binary64 value
C15_Witness ==
    /\ fpc = "parsed"
    /\ fcall = [number |-> 261, scale |-> 10]
    /\ text = <<"2", "6", ".", "1">>
    /\ parsed = NumberLiteral(261, 10)

(***************************************************************************)
(* C16: createWorkoutLog is atomic with respect to storage: after any      *)
(* call, whether it returned or threw at any step, the tables hold either  *)
(* the new workout_logs row together with exactly one exercise_logs row    *)
(* per submitted item, or neither; the rows that were there before are     *)
(* untouched.                                                              *)
(***************************************************************************)
CallEnded == lpc \in {"returned", "threw"}

NewWorkoutLogs == tables.workout_logs \ lcall.before.workout_logs

NewExerciseLogs == tables.exercise_logs \ lcall.before.exercise_logs

C16_CreateWorkoutLogIsAtomic ==
    CallEnded =>
        /\ lcall.before.workout_logs \subseteq tables.workout_logs
        /\ lcall.before.exercise_logs \subseteq tables.exercise_logs
        /\ \/ NewWorkoutLogs = {} /\ NewExerciseLogs = {}
           \/ \E id \in WorkoutLogIds :
                  /\ NewWorkoutLogs = {id}
                  /\ NewExerciseLogs =
                         {[workout_log_id |-> id, exercise_id |-> lcall.items[i], item |-> i] :
                              i \in DOMAIN lcall.items}
        /\ lpc = "returned" => NewWorkoutLogs # {}

\* the function had inserted the workout log and the first of two exercise
\* logs when the second insert raised an error: nothing of it is stored
C16_Witness ==
    /\ lpc = "threw"
    /\ Len(lcall.items) = 2
    /\ workoutLogId \in working.workout_logs
    /\ InsertedItems = 1
    /\ tables = lcall.before

(***************************************************************************)
(* C17: in the fresh draft LogWorkout builds, an exercise whose tracking   *)
(* is reps_only or duration gets no weight suggestion: every set created   *)
(* for it has an empty weight, whatever its equipment and previous sets,   *)
(* and saving the untouched draft stores no weight for it.                 *)
(* The code does not look at the tracking: this fails.                     *)
(***************************************************************************)
C17_NoSuggestionWithoutLoadTracking ==
    (dpc \in {"logging", "saved"} /\ item.tracking \in {"reps_only", "duration"}) =>
        /\ \A i \in DOMAIN exerciseInput.sets : exerciseInput.sets[i].weight = <<>>
        /\ \A i \in DOMAIN savedSets : "weight" \notin DOMAIN savedSets[i]

(***************************************************************************)
(* C18: every exported data function of api.ts throws when one of its      *)
(* backend queries returns an error, getLastExerciseSets included when the *)
(* query of one of the requested exercises fails.                          *)
(* getLastExerciseSets returns instead: this fails.                        *)
(***************************************************************************)
SomeQueryFailed == \E q \in DOMAIN responses : IsError(responses[q])

C18_EveryDataFunctionThrowsOnError ==
    (apc = "done" /\ SomeQueryFailed) => outcome = Threw

(***************************************************************************)
(* C19 as stated: for each requested exercise that has at least one log    *)
(* with a set of weight > 0, getLastExerciseSets returns the sets of the    *)
(* most recent such log (by workout date); an exercise with no such log is *)
(* absent from the result, so that every returned entry contains a set of  *)
(* weight > 0.  The logs are those of the table as it was when the query   *)
(* of the exercise was answered.  This fails for a log older than the ten  *)
(* most recent logs of the exercise and for a query that failed.           *)
(***************************************************************************)
LastSetsReturned == apc = "done" /\ acall.fn = "getLastExerciseSets"

\* the tables a query of the call may have been answered from
TablesServed == {acall.table, atable}

LogsOf(table, e) == {r \in table : r.exercise_id = e}

HasPositiveWeightSet(sets) == \E i \in DOMAIN sets : HasPositiveWeight(sets[i])

WeightedLogsOf(rows) == {r \in rows : HasPositiveWeightSet(r.sets)}

\* r is the latest of the rows, or one of the latest
IsLatestOf(r, rows) == r \in rows /\ \A q \in rows : q.date <= r.date

\* the entry of e in the result is the sets of the latest of the rows, and
\* there is no entry when there is no row
EntryIsLatestOf(e, rows) ==
    IF rows = {} THEN e \notin DOMAIN outcome.value
    ELSE /\ e \in DOMAIN outcome.value
         /\ \E r \in rows : IsLatestOf(r, rows) /\ outcome.value[e] = r.sets

C19_ReturnsMostRecentWeightedLog ==
    LastSetsReturned =>
        /\ outcome # Threw
        /\ \A e \in acall.exerciseIds :
               \E table \in TablesServed :
                   EntryIsLatestOf(e, WeightedLogsOf(LogsOf(table, e)))
        /\ \A e \in DOMAIN outcome.value :
               e \in acall.exerciseIds /\ HasPositiveWeightSet(outcome.value[e])

(***************************************************************************)
(* C19, amended: for each requested exercise whose query succeeded,        *)
(* getLastExerciseSets returns the sets of the most recent log with a set  *)
(* of weight > 0 among the ten logs the query returned, which are the ten  *)
(* most recent logs of the exercise (by workout date, logs of one date     *)
(* counting as equally recent) in the table as it was when the query was   *)
(* answered; an exercise without such a log among those ten, or whose      *)
(* query failed, is absent from the result, so that every returned entry   *)
(* contains a set of weight > 0.                                           *)
(***************************************************************************)
\* the logs the query of e returned
ReturnedLogsOf(e) == {responses[e].data[i] : i \in DOMAIN responses[e].data}

\* returned are QueryLimit of the logs, or all when there are fewer, and no
\* other log is later than one of them
AreTheRecentOf(returned, logs) ==
    /\ returned \subseteq logs
    /\ Cardinality(returned) =
           IF Cardinality(logs) < QueryLimit THEN Cardinality(logs) ELSE QueryLimit
    /\ \A r \in returned, q \in logs \ returned : q.date <= r.date

C19_ReturnsMostRecentWeightedLogOfTheLastTen ==
    LastSetsReturned =>
        /\ outcome # Threw
        /\ \A e \in acall.exerciseIds :
               IF IsError(responses[e]) THEN e \notin DOMAIN outcome.value
               ELSE /\ \E table \in TablesServed :
                          AreTheRecentOf(ReturnedLogsOf(e), LogsOf(table, e))
                    /\ EntryIsLatestOf(e, WeightedLogsOf(ReturnedLogsOf(e)))
        /\ \A e \in DOMAIN outcome.value :
               e \in acall.exerciseIds /\ HasPositiveWeightSet(outcome.value[e])

\* nine logs without a weight are later than the log whose sets are
\* returned, and an earlier log with another weight is passed over
C19_Witness ==
    /\ LastSetsReturned
    /\ "e1" \in DOMAIN outcome.value
    /\ \E r \in WeightedLogsOf(LogsOf(atable, "e1")) :
           /\ outcome.value["e1"] = r.sets
           /\ Cardinality({q \in LogsOf(atable, "e1") : q.date > r.date}) = QueryLimit - 1
           /\ \E q \in WeightedLogsOf(LogsOf(atable, "e1")) :
                  q.date < r.date /\ q.sets # r.sets

(***************************************************************************)
(* C20: the default data is seeded at most once per user: after any        *)
(* interleaving of invocations of seedUserData for the same user, the      *)
(* user's exercises hold each default exercise at most once and the user's *)
(* templates at most one "Push" and at most one "Pull".                    *)
(* Two invocations that both select before either inserts seed twice:      *)
(* this fails.                                                             *)
(***************************************************************************)
C20_DefaultDataSeededAtMostOnce ==
    /\ \A n \in defaultExercises :
           Cardinality({r \in userData.exercises : r.name = n}) <= 1
    /\ \A t \in {"Push", "Pull"} :
           Cardinality({r \in userData.workout_templates : r.name = t}) <= 1
(***************************************************************************)
(* SpecOrder: calculateSuggestedWeight called on a list of previous sets,  *)
(* and then on the same list reordered, or with a set without weight added *)
(* or removed.                                                             *)
(***************************************************************************)
OrderInit ==
    /\ opc = "call"
    /\ ocall \in OrderCalls
    /\ oresult = Null
    /\ ovariant = ocall
    /\ vresult = Null
    /\ IdleExcept("order")

CalculateOriginal ==
    /\ opc = "call"
    /\ oresult' = calculateSuggestedWeight(ocall)
    /\ opc' = "returned"
    /\ UNCHANGED <<ocall, ovariant, vresult, notOrder>>

CalculateVariant(previousSets) ==
    /\ ovariant' = [ocall EXCEPT !.previousSets = previousSets]
    /\ vresult' = calculateSuggestedWeight(ovariant')
    /\ opc' = "compared"
    /\ UNCHANGED <<ocall, oresult, notOrder>>

CalculatePermuted ==
    /\ opc = "returned"
    /\ \E perm \in Permutations(DOMAIN ocall.previousSets) :
           CalculateVariant(permuted(ocall.previousSets, perm))

CalculateWithSetAdded ==
    /\ opc = "returned"
    /\ \E set \in WeightlessSets, k \in 0 .. Len(ocall.previousSets) :
           CalculateVariant(withSetAdded(ocall.previousSets, set, k))

CalculateWithSetRemoved ==
    /\ opc = "returned"
    /\ \E k \in DOMAIN ocall.previousSets :
           /\ ocall.previousSets[k] \in WeightlessSets
           /\ CalculateVariant(withSetRemoved(ocall.previousSets, k))

OrderNext ==
    \/ CalculateOriginal
    \/ CalculatePermuted
    \/ CalculateWithSetAdded
    \/ CalculateWithSetRemoved

SpecOrder == OrderInit /\ [][OrderNext]_vars

\* C27: the value calculateSuggestedWeight returns for a list of previous
\* sets is the value it returns for the same list in any other order, with a
\* set without weight (absent, zero or negative, any reps) added anywhere, or
\* with such a set removed.
C27_IndependentOfOrderAndWeightlessSets ==
    opc = "compared" => vresult = oresult

\* a suggestion to increase was returned for two sets of different weight,
\* and again for the list in another order or with a weightless set more
C27_Witness ==
    /\ opc = "compared"
    /\ ovariant # ocall
    /\ oresult # Null
    /\ oresult.isIncrease
    /\ \E i, j \in DOMAIN ocall.previousSets :
           /\ ocall.previousSets[i] \notin WeightlessSets
           /\ ocall.previousSets[j] \notin WeightlessSets
           /\ ocall.previousSets[i].weight < ocall.previousSets[j].weight
(***************************************************************************)
(* SpecWorkout: a session of the app.  The provider is mounted throughout; *)
(* the user opens LogWorkout for a template, answers the resume prompt,    *)
(* edits the draft, saves or cancels, and leaves the page.  An async       *)
(* function of the page stays in flight until its request is answered.     *)
(* A continuation that runs after its page was unmounted sets no state of  *)
(* the page that is mounted then, but still calls the provider and         *)
(* navigate.                                                               *)
(*                                                                         *)
(* A handler is the handler of the render that is on screen and reads the  *)
(* route, the draft and the state of that render.  React renders what a    *)
(* click or an input set, together with what waits to be rendered, before  *)
(* the next event is handled, and runs the effects of that render at once. *)
(* What the continuation of an await sets (state, draft, navigation) is    *)
(* rendered in a later step (Render); until then the page on screen, its   *)
(* handlers and the mounted components are those of the render before.     *)
(* The effect of such a render runs in a step of its own (EffectRuns), at  *)
(* the latest before the next render.                                      *)
(***************************************************************************)
Provider ==
    [draft |-> draft, storage |-> storage, saveTimeout |-> saveTimeout,
     replaced |-> FALSE]

SetProvider(p) ==
    /\ draft' = p.draft
    /\ storage' = p.storage
    /\ saveTimeout' = p.saveTimeout

\* the location of the router, the state of the page and its ref
Page ==
    [route |-> route, template |-> template, loading |-> loading,
     showResumePrompt |-> showResumePrompt,
     initializedForTemplate |-> initializedForTemplate, saving |-> saving]

\* the page is part of the tree that is on screen
Mounted == screen.route \in TemplateIds

\* the page that called run is the page that is mounted: setState and the
\* ref of another page are not those of the mounted one
Own(run) == Mounted /\ run.mount = mounts

\* LogWorkout.tsx 253-292: what the page on screen shows
PromptShown ==
    Mounted /\ ~screen.loading /\ screen.template # "none" /\ screen.showResumePrompt

FormShown ==
    Mounted /\ ~screen.loading /\ screen.template # "none" /\ ~screen.showResumePrompt

\* the calls in flight once the effect that has not run yet has run
Flushed(initialized, runs) ==
    IF effects = <<>> THEN runs
    ELSE effect(effects[1].templateId, initialized, effects[1].draft, mounts, runs)

\* the page is unmounted and its state is gone
Unmounted ==
    /\ template' = "none"
    /\ loading' = TRUE
    /\ showResumePrompt' = FALSE
    /\ initializedForTemplate' = "none"
    /\ saving' = FALSE

\* React renders the tree for the location, the state and the ref in page
\* and for the draft of the provider: the effect that waits runs first; a
\* page whose route is gone is unmounted and a page whose route is new is
\* mounted; the effect of the page (LogWorkout.tsx 44, 116) is due when the
\* page is mounted or templateId or draft changed, and runs at once after a
\* render for a click or an input (atOnce)
Rendered(page, runs, replacedNow, atOnce) ==
    LET mounting == ~Mounted /\ page.route \in TemplateIds
        due == /\ page.route \in TemplateIds
               /\ (mounting \/ page.route # screen.route \/ replaced \/ replacedNow)
        flushed == Flushed(page.initializedForTemplate, runs)
    IN  /\ route' = page.route
        /\ IF Mounted /\ page.route \notin TemplateIds
           THEN Unmounted
           ELSE /\ template' = page.template
                /\ loading' = page.loading
                /\ showResumePrompt' = page.showResumePrompt
                /\ initializedForTemplate' = page.initializedForTemplate
                /\ saving' = page.saving
        /\ mounts' = IF mounting THEN mounts + 1 ELSE mounts
        /\ screen' = ScreenOf(route', draft', template', loading',
                              showResumePrompt', saving')
        /\ replaced' = FALSE
        /\ inflight' = IF due /\ atOnce
                       THEN effect(page.route, initializedForTemplate', draft',
                                   mounts', flushed)
                       ELSE flushed
        /\ effects' = IF due /\ ~atOnce
                      THEN <<[templateId |-> page.route, draft |-> draft']>>
                      ELSE <<>>

\* the continuation of an await called the provider: nothing is rendered yet
Awaited(p) ==
    /\ SetProvider(p)
    /\ replaced' = (replaced \/ p.replaced)
    /\ UNCHANGED <<screen, effects>>

\* what an earlier session left in session storage: nothing, something
\* that is not JSON, or the draft of a workout for t1
EarlierDraft ==
    [templateId |-> "t1",
     workoutDate |-> "2024-04-30",
     exerciseInputs |->
         <<[exerciseId |-> "e1", tracking |-> "load_reps",
            sets |-> <<[weight |-> <<"4", "0">>, reps |-> <<"8">>],
                       [weight |-> <<"4", "0">>, reps |-> <<>>]>>],
           [exerciseId |-> "e2", tracking |-> "reps_only",
            sets |-> <<[weight |-> <<>>, reps |-> <<>>]>>]>>,
     startedAt |-> 0]

StoredBefore == {Null, Corrupt, JSONstringify(EarlierDraft)}

WorkoutInit ==
    /\ \E stored \in StoredBefore : LET p == loadDraftFromStorage(stored)
           IN  draft = p.draft /\ storage = p.storage /\ saveTimeout = p.saveTimeout
    /\ route = "/"
    /\ PageUnmounted
    /\ inflight = EmptyBag
    /\ called = [fn |-> "WorkoutProvider"]
    /\ now = 0
    /\ edits = MaxEdits
    /\ mounts = 0
    /\ screen = ScreenOf("/", draft, "none", TRUE, FALSE, FALSE)
    /\ replaced = FALSE
    /\ effects = <<>>
    /\ IdleExcept("workout")

\* Home.tsx 63, 165: on another page the user follows the link to /log/t;
\* the page mounts and its effect runs
OpenLogWorkout ==
    /\ ~Mounted
    /\ mounts < MaxMounts
    /\ \E t \in TemplateIds :
           /\ called' = [fn |-> "LogWorkout", templateId |-> t]
           /\ UNCHANGED providerVars
           /\ Rendered([Page EXCEPT !.route = t], inflight, FALSE, TRUE)
    /\ UNCHANGED <<now, edits, notWorkout>>

\* the user leaves the page through the navigation bar
NavigateAway ==
    /\ Mounted
    /\ called' = [fn |-> "navigate"]
    /\ UNCHANGED providerVars
    /\ Rendered([Page EXCEPT !.route = "/"], inflight, FALSE, TRUE)
    /\ UNCHANGED <<now, edits, notWorkout>>

\* what was set since the render on screen
Dirty ==
    \/ route # screen.route
    \/ replaced
    \/ <<template, loading, showResumePrompt, saving>>
           # <<screen.template, screen.loading, screen.showResumePrompt,
               screen.saving>>

\* React renders what the continuations have set
Render ==
    /\ Dirty
    /\ called' = [fn |-> "render"]
    /\ UNCHANGED providerVars
    /\ Rendered(Page, inflight, FALSE, FALSE)
    /\ UNCHANGED <<now, edits, notWorkout>>

\* LogWorkout.tsx 44-50, 115: the effect of the render on screen runs
EffectRuns ==
    /\ effects # <<>>
    /\ inflight' = Flushed(initializedForTemplate, inflight)
    /\ effects' = <<>>
    /\ called' = [fn |-> "useEffect"]
    /\ UNCHANGED <<providerVars, pageVars, screen, replaced, now, edits, mounts,
                   notWorkout>>

\* LogWorkout.tsx 55, 107-112: getTemplateById throws
GetTemplateByIdRejects ==
    \E run \in BagToSet(inflight) :
        /\ run.awaits = "getTemplateById"
        /\ route' = "/"
        /\ loading' = IF Own(run) THEN FALSE ELSE loading
        /\ inflight' = inflight (-) SetToBag({run})
        /\ called' = [fn |-> "loadTemplate", outcome |-> "failed"]
        /\ UNCHANGED <<providerVars, template, showResumePrompt,
                       initializedForTemplate, saving, renderVars,
                       now, edits, mounts, notWorkout>>

\* LogWorkout.tsx 55-71: getTemplateById returned a template of its own
\* items, and the draft of the effect's render is for another template
LoadTemplateShowsPrompt ==
    \E run \in BagToSet(inflight) :
        /\ run.awaits = "getTemplateById"
        /\ run.draft # Null /\ run.draft.templateId # run.templateId
        /\ template' = IF Own(run) THEN run.templateId ELSE template
        /\ showResumePrompt' = IF Own(run) THEN TRUE ELSE showResumePrompt
        /\ loading' = IF Own(run) THEN FALSE ELSE loading
        /\ inflight' = inflight (-) SetToBag({run})
        /\ called' = [fn |-> "loadTemplate", outcome |-> "prompt"]
        /\ UNCHANGED <<providerVars, route, initializedForTemplate, saving,
                       renderVars, now, edits, mounts, notWorkout>>

\* the draft for this template is not used: previous sets are requested
LoadTemplateUsesDraft_Refetches ==
    \E run \in BagToSet(inflight) :
        /\ run.awaits = "getTemplateById"
        /\ run.draft # Null /\ run.draft.templateId = run.templateId
        /\ template' = IF Own(run) THEN run.templateId ELSE template
        /\ initializedForTemplate' =
               IF Own(run) THEN run.templateId ELSE initializedForTemplate
        /\ inflight' = (inflight (-) SetToBag({run}))
               (+) SetToBag({[fn |-> "loadTemplate", awaits |-> "getLastExerciseSets",
                              templateId |-> run.templateId,
                              template |-> run.templateId, mount |-> run.mount]})
        /\ called' = [fn |-> "loadTemplate", outcome |-> "draft"]
        /\ UNCHANGED <<providerVars, route, loading, showResumePrompt, saving,
                       renderVars, now, edits, mounts, notWorkout>>

\* LogWorkout.tsx 55-71: the draft of the effect's render is for this
\* template
LoadTemplateUsesDraft ==
    \E run \in BagToSet(inflight) :
        /\ run.awaits = "getTemplateById"
        /\ run.draft # Null /\ run.draft.templateId = run.templateId
        /\ template' = IF Own(run) THEN run.templateId ELSE template
        /\ initializedForTemplate' =
               IF Own(run) THEN run.templateId ELSE initializedForTemplate
        /\ loading' = IF Own(run) THEN FALSE ELSE loading
        /\ inflight' = inflight (-) SetToBag({run})
        /\ called' = [fn |-> "loadTemplate", outcome |-> "draft"]
        /\ UNCHANGED <<providerVars, route, showResumePrompt, saving,
                       renderVars, now, edits, mounts, notWorkout>>

\* LogWorkout.tsx 55-75: there was no draft; getLastExerciseSets is called
LoadTemplateFetches ==
    \E run \in BagToSet(inflight) :
        /\ run.awaits = "getTemplateById"
        /\ run.draft = Null
        /\ template' = IF Own(run) THEN run.templateId ELSE template
        /\ initializedForTemplate' =
               IF Own(run) THEN run.templateId ELSE initializedForTemplate
        /\ inflight' = (inflight (-) SetToBag({run}))
               (+) SetToBag({[fn |-> "loadTemplate", awaits |-> "getLastExerciseSets",
                              templateId |-> run.templateId,
                              template |-> run.templateId, mount |-> run.mount]})
        /\ called' = [fn |-> "loadTemplate", outcome |-> "fetch"]
        /\ UNCHANGED <<providerVars, route, loading, showResumePrompt, saving,
                       renderVars, now, edits, mounts, notWorkout>>

\* LogWorkout.tsx 118-126: Start Fresh is clicked; templateId and template
\* are those of the render on screen
HandleStartFresh ==
    /\ PromptShown
    /\ called' = [fn |-> "handleStartFresh", outcome |-> "fetch"]
    /\ UNCHANGED providerVars
    /\ Rendered([Page EXCEPT !.showResumePrompt = FALSE, !.loading = TRUE,
                             !.initializedForTemplate = screen.route],
                inflight (+) SetToBag(
                    {[fn |-> "handleStartFresh", awaits |-> "getLastExerciseSets",
                      templateId |-> screen.route, template |-> screen.template,
                      mount |-> mounts]}),
                FALSE, TRUE)
    /\ UNCHANGED <<now, edits, notWorkout>>

\* LogWorkout.tsx 75-113 (loadTemplate) and 128-163 (handleStartFresh):
\* getLastExerciseSets returned, the fresh draft is set
PreviousSetsReturned ==
    \E run \in BagToSet(inflight) :
        /\ run.awaits = "getLastExerciseSets"
        /\ now < MaxNow
        /\ \E previousSetsOf \in WorkoutPreviousData :
               Awaited(setDraft(Provider,
                   freshDraft(run.templateId, templateItems[run.template],
                              previousSetsOf, now + 1)))
        /\ now' = now + 1
        /\ loading' = IF Own(run) THEN FALSE ELSE loading
        /\ inflight' = inflight (-) SetToBag({run})
        /\ called' = [fn |-> run.fn, outcome |-> "setDraft"]
        /\ UNCHANGED <<route, template, showResumePrompt, initializedForTemplate,
                       saving, edits, mounts, notWorkout>>

\* LogWorkout.tsx 166-170: Resume Previous is clicked; draft is that of the
\* render on screen.  Without a draft the handler returns at line 167: it
\* sets nothing, so nothing is rendered and what waits keeps waiting.
HandleResumePrevious ==
    /\ PromptShown
    /\ called' = [fn |-> "handleResumePrevious"]
    /\ UNCHANGED providerVars
    /\ IF screen.draft = Null
       THEN UNCHANGED <<pageVars, renderVars, inflight, mounts>>
       ELSE Rendered([Page EXCEPT !.showResumePrompt = FALSE,
                                  !.route = screen.draft.templateId],
                     inflight, FALSE, TRUE)
    /\ UNCHANGED <<now, edits, notWorkout>>

\* an edit of the form: the provider's state changes, the rest of the page
\* stays
Edited(p) ==
    /\ SetProvider(p)
    /\ Rendered(Page, inflight, p.replaced, TRUE)
    /\ edits' = edits - 1
    /\ UNCHANGED <<now, notWorkout>>

\* LogWorkout.tsx 172-186, from the inputs the form on screen shows: the
\* weight field only for load_reps
HandleSetChange ==
    /\ FormShown
    /\ edits > 0
    /\ \E exerciseIndex \in DOMAIN exerciseInputsOf(screen) :
         \E setIndex \in DOMAIN exerciseInputsOf(screen)[exerciseIndex].sets :
           \E field \in {"weight", "reps"}, value \in TypedTexts :
              /\ field = "weight" =>
                     exerciseInputsOf(screen)[exerciseIndex].tracking = "load_reps"
              /\ Edited(handleSetChange(Provider, exerciseInputsOf(screen),
                                        exerciseIndex, setIndex, field, value))
              /\ called' = [fn |-> "handleSetChange",
                            exerciseIndex |-> exerciseIndex, setIndex |-> setIndex]

\* LogWorkout.tsx 188-195
AddSet ==
    /\ FormShown
    /\ edits > 0
    /\ \E exerciseIndex \in DOMAIN exerciseInputsOf(screen) :
           /\ Len(exerciseInputsOf(screen)[exerciseIndex].sets) < MaxDraftSets
           /\ Edited(addSet(Provider, exerciseInputsOf(screen), exerciseIndex))
           /\ called' = [fn |-> "addSet", exerciseIndex |-> exerciseIndex]

\* LogWorkout.tsx 197-206, called for any set of the form.  The button of
\* an only set is disabled (line 386); the call is made all the same, and
\* when the guard of line 199 fails nothing is set and nothing is rendered:
\* what waits keeps waiting and no edit is made.
RemoveSet ==
    /\ FormShown
    /\ edits > 0
    /\ \E exerciseIndex \in DOMAIN exerciseInputsOf(screen) :
         \E setIndex \in DOMAIN exerciseInputsOf(screen)[exerciseIndex].sets :
           LET removed == removeSet(Provider, exerciseInputsOf(screen),
                                    exerciseIndex, setIndex)
           IN  /\ IF removed.updated
                  THEN Edited(removed.provider)
                  ELSE UNCHANGED <<providerVars, pageVars, renderVars, inflight,
                                   now, edits, mounts, notWorkout>>
               /\ called' = [fn |-> "removeSet",
                             exerciseIndex |-> exerciseIndex, setIndex |-> setIndex]

\* LogWorkout.tsx 300: the date input
ChangeWorkoutDate ==
    /\ FormShown
    /\ edits > 0
    /\ \E date \in Dates : Edited(updateWorkoutDate(Provider, date))
    /\ called' = [fn |-> "updateWorkoutDate"]

\* LogWorkout.tsx 248-251, 305-310
HandleCancel ==
    /\ FormShown
    /\ SetProvider(clearWorkout(Provider))
    /\ called' = [fn |-> "handleCancel"]
    /\ Rendered([Page EXCEPT !.route = "/"], inflight,
                clearWorkout(Provider).replaced, TRUE)
    /\ UNCHANGED <<now, edits, notWorkout>>

\* LogWorkout.tsx 208-231, 408-409: Save Workout is clicked, createWorkoutLog
\* is called
HandleSaveStarts ==
    /\ FormShown
    /\ ~screen.saving
    /\ called' = [fn |-> "handleSave", outcome |-> "createWorkoutLog"]
    /\ UNCHANGED providerVars
    /\ Rendered([Page EXCEPT !.saving = TRUE],
                inflight (+)
                    SetToBag({[fn |-> "handleSave", awaits |-> "createWorkoutLog",
                               mount |-> mounts]}),
                FALSE, TRUE)
    /\ UNCHANGED <<now, edits, notWorkout>>

\* LogWorkout.tsx 231-239, 243-245: createWorkoutLog returned
CreateWorkoutLogResolves ==
    \E run \in BagToSet(inflight) :
        /\ run.fn = "handleSave"
        /\ Awaited(clearWorkout(Provider))
        /\ route' = "/history"
        /\ saving' = IF Own(run) THEN FALSE ELSE saving
        /\ inflight' = inflight (-) SetToBag({run})
        /\ called' = [fn |-> "handleSave", outcome |-> "saved"]
        /\ UNCHANGED <<template, loading, showResumePrompt,
                       initializedForTemplate, now, edits, mounts, notWorkout>>

\* the draft is cleared although createWorkoutLog threw
CreateWorkoutLogRejects_ClearsDraft ==
    \E run \in BagToSet(inflight) :
        /\ run.fn = "handleSave"
        /\ Awaited(clearWorkout(Provider))
        /\ saving' = IF Own(run) THEN FALSE ELSE saving
        /\ inflight' = inflight (-) SetToBag({run})
        /\ called' = [fn |-> "handleSave", outcome |-> "failed"]
        /\ UNCHANGED <<route, template, loading, showResumePrompt,
                       initializedForTemplate, now, edits, mounts, notWorkout>>

\* LogWorkout.tsx 231, 240-245: createWorkoutLog threw
CreateWorkoutLogRejects ==
    \E run \in BagToSet(inflight) :
        /\ run.fn = "handleSave"
        /\ saving' = IF Own(run) THEN FALSE ELSE saving
        /\ inflight' = inflight (-) SetToBag({run})
        /\ called' = [fn |-> "handleSave", outcome |-> "failed"]
        /\ UNCHANGED <<providerVars, route, template, loading, showResumePrompt,
                       initializedForTemplate, renderVars, now, edits, mounts,
                       notWorkout>>

\* part_005 68-78: DEBOUNCE_MS have passed since the last saveToStorage
SaveTimeoutFires ==
    /\ saveTimeout # <<>>
    /\ \E setItemThrows \in BOOLEAN :
           /\ SetProvider(saveTimeoutCallback(Provider, setItemThrows))
           /\ called' = [fn |-> "saveTimeout",
                         outcome |-> IF setItemThrows /\ saveTimeout[1] # Null
                                     THEN "threw" ELSE "written"]
    /\ UNCHANGED <<pageVars, renderVars, inflight, now, edits, mounts, notWorkout>>

WorkoutNext ==
    \/ OpenLogWorkout
    \/ NavigateAway
    \/ Render
    \/ EffectRuns
    \/ GetTemplateByIdRejects
    \/ LoadTemplateShowsPrompt
    \/ LoadTemplateUsesDraft
    \/ LoadTemplateFetches
    \/ HandleStartFresh
    \/ PreviousSetsReturned
    \/ HandleResumePrevious
    \/ HandleSetChange
    \/ AddSet
    \/ RemoveSet
    \/ ChangeWorkoutDate
    \/ HandleCancel
    \/ HandleSaveStarts
    \/ CreateWorkoutLogResolves
    \/ CreateWorkoutLogRejects
    \/ SaveTimeoutFires

SpecWorkout == WorkoutInit /\ [][WorkoutNext]_vars

(***************************************************************************)
(* SpecProvider: the WorkoutProvider under any use of its context.  The    *)
(* functions useWorkout hands out (part_005 126) are called in any order   *)
(* and with any argument of a small set, from the draft of the current or  *)
(* of an earlier render, and the timer runs or is replaced in between.     *)
(* Every order in which LogWorkout, the only caller, its handlers and its  *)
(* requests in flight call the provider is one of these.  The updater of   *)
(* updateExerciseInputs and updateWorkoutDate reads the provider's latest  *)
(* draft (prev), whatever render the caller belongs to.                    *)
(***************************************************************************)
\* calls of the provider a session of SpecProvider makes
MaxCalls == 5

\* LogWorkout.tsx 100-106, 152-158: setDraft is called with a new draft
ProviderDrafts ==
    {[EarlierDraft EXCEPT !.workoutDate = Today, !.startedAt = 1],
     [templateId |-> "t2",
      workoutDate |-> Today,
      exerciseInputs |->
          <<[exerciseId |-> "e1", tracking |-> "load_reps",
             sets |-> <<[weight |-> <<>>, reps |-> <<>>]>>]>>,
      startedAt |-> 2]}

\* LogWorkout.tsx 172-206: the exercise inputs a handler passes on, made
\* from those of the render it belongs to
ProviderExerciseInputs ==
    {[d.exerciseInputs EXCEPT ![1].sets[1].reps = reps] :
         d \in ProviderDrafts \cup {EarlierDraft}, reps \in TypedTexts}

ProviderInit ==
    /\ \E stored \in StoredBefore : LET p == loadDraftFromStorage(stored)
           IN  draft = p.draft /\ storage = p.storage /\ saveTimeout = p.saveTimeout
    /\ route = "/"
    /\ PageUnmounted
    /\ inflight = EmptyBag
    /\ called = [fn |-> "WorkoutProvider"]
    /\ now = 0
    /\ edits = MaxCalls
    /\ mounts = 0
    /\ screen = ScreenOf("/", draft, "none", TRUE, FALSE, FALSE)
    /\ replaced = FALSE
    /\ effects = <<>>
    /\ IdleExcept("workout")

\* a function of the context was called and left the provider as p
ProviderCalled(p, fn) ==
    /\ edits > 0
    /\ SetProvider(p)
    /\ called' = [fn |-> fn]
    /\ edits' = edits - 1
    /\ UNCHANGED <<pageVars, renderVars, inflight, now, mounts, notWorkout>>

\* part_005 81-84
SetDraft ==
    \E newDraft \in ProviderDrafts :
        ProviderCalled(setDraft(Provider, newDraft), "setDraft")

\* part_005 86-93
UpdateExerciseInputs ==
    \E exerciseInputs \in ProviderExerciseInputs :
        ProviderCalled(updateExerciseInputs(Provider, exerciseInputs),
                       "updateExerciseInputs")

\* part_005 95-102
UpdateWorkoutDate ==
    \E date \in Dates :
        ProviderCalled(updateWorkoutDate(Provider, date), "updateWorkoutDate")

\* part_005 104-114
ClearWorkout == ProviderCalled(clearWorkout(Provider), "clearWorkout")

ProviderNext ==
    \/ SetDraft
    \/ UpdateExerciseInputs
    \/ UpdateWorkoutDate
    \/ ClearWorkout
    \/ SaveTimeoutFires

SpecProvider == ProviderInit /\ [][ProviderNext]_vars

\* a timer that is not cleared runs its callback
SpecProviderFair == SpecProvider /\ WF_vars(SaveTimeoutFires)

\* the call run went on in this step
Continued(run) == CopiesIn(run, inflight') < CopiesIn(run, inflight)

\* the call run of loadTemplate got its template in this step
GotTemplate(run) ==
    /\ Continued(run)
    /\ run.awaits = "getTemplateById"
    /\ called' \in {[fn |-> "loadTemplate", outcome |-> o] :
                       o \in {"prompt", "draft", "fetch"}}

\* the requests for previous sets
FetchingRuns(runs) == {run \in BagToSet(runs) : run.awaits = "getLastExerciseSets"}

\* previous sets are being requested
Fetching == FetchingRuns(inflight) # {}

\* d is a draft as LogWorkout creates it for templateId at the time clock
IsFreshDraft(d, templateId, clock) ==
    /\ d # Null
    /\ d.templateId = templateId
    /\ d.workoutDate = Today
    /\ d.startedAt = clock
    /\ DOMAIN d.exerciseInputs = DOMAIN templateItems[templateId]
    /\ \A e \in DOMAIN d.exerciseInputs :
           /\ d.exerciseInputs[e].exerciseId = templateItems[templateId][e].exercise_id
           /\ Len(d.exerciseInputs[e].sets) = templateItems[templateId][e].target_sets
           /\ \A i \in DOMAIN d.exerciseInputs[e].sets :
                  d.exerciseInputs[e].sets[i].reps = <<>>

StartFreshClicked == called' = [fn |-> "handleStartFresh", outcome |-> "fetch"]

StartFreshSetDraft == called' = [fn |-> "handleStartFresh", outcome |-> "setDraft"]

ResumePreviousClicked == called' = [fn |-> "handleResumePrevious"]

\* C21: when the load of the page opened for T gets its template and the
\* draft the page was opened with is for another template, the resume prompt
\* is shown, the draft is left as it is and no previous sets are requested;
\* the draft does not change while the prompt is shown, nor with the click on
\* Start Fresh; Start Fresh then sets a fresh draft for T, Resume Previous
\* keeps the draft and goes to /log/<the draft's template>; and no other
\* step replaces a draft by another.  This fails when a request of an
\* earlier visit of the page is answered.
C21_DraftKeptUntilTheUserDecides ==
    [][
       /\ \A run \in BagToSet(inflight) :
              (/\ GotTemplate(run)
               /\ Own(run)
               /\ run.draft # Null
               /\ run.draft.templateId # run.templateId)
                  => /\ showResumePrompt'
                     /\ ~loading'
                     /\ template' = run.templateId
                     /\ draft' = draft
                     /\ FetchingRuns(inflight') = FetchingRuns(inflight)
       /\ PromptShown => draft' = draft
       /\ StartFreshClicked => (draft' = draft /\ Fetching')
       /\ \A run \in BagToSet(inflight) :
              (StartFreshSetDraft /\ Continued(run))
                  => IsFreshDraft(draft', run.templateId, now')
       /\ (ResumePreviousClicked /\ draft # Null)
              => /\ draft' = draft
                 /\ route' = draft.templateId
                 /\ ~showResumePrompt'
       /\ (draft # Null /\ draft' # Null /\ draft' # draft)
              => \/ StartFreshSetDraft
                 \/ called'.fn \in {"handleSetChange", "addSet", "removeSet",
                                    "updateWorkoutDate"}
      ]_vars

\* C22: when a load of the page opened for T gets its template and the
\* draft the page was opened with is for T, the draft (exercise inputs, date,
\* previous sets, startedAt) stays as it is, nothing is scheduled to be
\* saved, no previous sets are requested, and the page is marked as
\* initialized for T and stops showing that it loads.
C22_ExistingDraftIsUsedAsIs ==
    [][
       \A run \in BagToSet(inflight) :
          (/\ GotTemplate(run)
           /\ run.draft # Null
           /\ run.draft.templateId = run.templateId)
              => /\ draft' = draft
                 /\ saveTimeout' = saveTimeout
                 /\ FetchingRuns(inflight') = FetchingRuns(inflight)
                 /\ Own(run) => /\ ~loading'
                                /\ template' = run.templateId
                                /\ initializedForTemplate' = run.templateId
      ]_vars

\* the page was opened for the template of an edited draft, and its load
\* has taken the draft as it is
C22_Witness ==
    /\ called = [fn |-> "loadTemplate", outcome |-> "draft"]
    /\ Mounted
    /\ ~loading
    /\ template = route
    /\ draft # Null
    /\ draft.templateId = route
    /\ initializedForTemplate = route
    /\ edits < MaxEdits
    /\ ~Fetching

\* the entry of session storage is the serialised draft, or there is neither
StorageHoldsDraft ==
    storage = IF draft = Null THEN Null ELSE JSONstringify(draft)

\* clearWorkout ran in this step
ClearWorkoutCalled == called' = [fn |-> "clearWorkout"]

\* setDraft, updateExerciseInputs or updateWorkoutDate ran in this step
DraftChangeCalled ==
    called'.fn \in {"setDraft", "updateExerciseInputs", "updateWorkoutDate"}

\* C23: clearWorkout leaves no draft in memory, no entry in session storage
\* and no pending save, whatever was pending before; while there is no
\* draft, storage has no entry and no save is pending; an entry is written
\* only by the callback of a pending save, and a save becomes pending only
\* by setDraft, updateExerciseInputs or updateWorkoutDate.
C23_ClearWorkoutCancelsThePendingSave ==
    /\ [](draft = Null => (storage = Null /\ saveTimeout = <<>>))
    /\ [][
          /\ ClearWorkoutCalled
                => (draft' = Null /\ storage' = Null /\ saveTimeout' = <<>>)
          /\ (storage' # storage /\ storage' # Null)
                => (saveTimeout # <<>> /\ called'.fn = "saveTimeout")
          /\ (saveTimeout' # saveTimeout /\ saveTimeout' # <<>>)
                => DraftChangeCalled
         ]_vars

\* clearWorkout was the third call of the session: nothing is left of the
\* draft, of its entry and of the pending save
C23_Witness ==
    /\ called = [fn |-> "clearWorkout"]
    /\ edits = MaxCalls - 3
    /\ draft = Null
    /\ storage = Null
    /\ saveTimeout = <<>>

\* the timer ran in this step, and setItem stored the draft or threw
TimerWrote == called' = [fn |-> "saveTimeout", outcome |-> "written"]

TimerThrew == called' = [fn |-> "saveTimeout", outcome |-> "threw"]

\* C24 as stated: at most one save is pending and it is for the draft as it
\* is now, so that of the changes made before the timer runs only the last
\* is written; what the timer leaves in storage is the draft as it is now;
\* and from some point on no save is pending and session storage holds the
\* draft, or no entry when there is no draft.  This fails when setItem
\* throws.
C24_DebouncedAndEventuallyConsistent ==
    /\ [](saveTimeout # <<>> => saveTimeout = <<draft>>)
    /\ [][called'.fn = "saveTimeout" => StorageHoldsDraft']_vars
    /\ <>[](saveTimeout = <<>> /\ StorageHoldsDraft)

\* C24, amended: at most one save is pending and it is for the draft as it
\* is now; a timer whose setItem does not throw leaves the draft as it is
\* now in storage, a timer whose setItem throws leaves storage as it was,
\* and after either no save is pending; from some point on no save is
\* pending; and unless a setItem threw, session storage from some point on
\* holds the draft, or no entry when there is no draft.
C24_DebouncedAndConsistentUnlessSetItemThrows ==
    /\ [](saveTimeout # <<>> => saveTimeout = <<draft>>)
    /\ [][
          /\ TimerWrote => (StorageHoldsDraft' /\ saveTimeout' = <<>>)
          /\ TimerThrew => (storage' = storage /\ saveTimeout' = <<>>)
         ]_vars
    /\ <>[](saveTimeout = <<>>)
    /\ \/ <>(called = [fn |-> "saveTimeout", outcome |-> "threw"])
       \/ <>[]StorageHoldsDraft

\* after three or more calls of the provider, the timer has written a
\* draft that was set in this session and changed afterwards
C24_Witness ==
    /\ called = [fn |-> "saveTimeout", outcome |-> "written"]
    /\ draft # Null
    /\ draft.startedAt > 0
    /\ draft \notin ProviderDrafts
    /\ edits <= MaxCalls - 3
    /\ saveTimeout = <<>>
    /\ StorageHoldsDraft

SaveFailed == called' = [fn |-> "handleSave", outcome |-> "failed"]

SaveSucceeded == called' = [fn |-> "handleSave", outcome |-> "saved"]

SetsInit ==
    /\ \E e1 \in {[exerciseId |-> "e1", tracking |-> "load_reps",
                     sets |-> <<[weight |-> <<>>, reps |-> <<>>],
                                [weight |-> <<>>, reps |-> <<>>]>>],
                    [exerciseId |-> "e1", tracking |-> "load_reps",
                     sets |-> <<[weight |-> <<"4", "2", ".", "5">>, reps |-> <<>>],
                                [weight |-> <<"4", "2", ".", "5">>, reps |-> <<>>]>>,
                     previousSets |-> <<[weight |-> 160, reps |-> 12]>>]} :
           draft = [templateId |-> "t1",
                    workoutDate |-> Today,
                    exerciseInputs |->
                        <<e1,
                          [exerciseId |-> "e2", tracking |-> "reps_only",
                           sets |-> <<[weight |-> <<>>, reps |-> <<>>]>>]>>,
                    startedAt |-> 1]
    /\ storage = Null
    /\ saveTimeout = <<draft>>
    /\ route = "t1"
    /\ template = "t1"
    /\ loading = FALSE
    /\ showResumePrompt = FALSE
    /\ initializedForTemplate = "t1"
    /\ saving = FALSE
    /\ inflight = EmptyBag
    /\ called = [fn |-> "loadTemplate", outcome |-> "setDraft"]
    /\ now = 1
    /\ edits = MaxSetEdits
    /\ mounts = 1
    /\ screen = ScreenOf("t1", draft, "t1", FALSE, FALSE, FALSE)
    /\ replaced = FALSE
    /\ effects = <<>>
    /\ IdleExcept("workout")

SetsNext == HandleSetChange \/ AddSet \/ RemoveSet

SpecSets == SetsInit /\ [][SetsNext]_vars

\* addSet, removeSet or handleSetChange ran in this step
SetsEdited == called'.fn \in {"handleSetChange", "addSet", "removeSet"}

\* C26: every exercise of the draft has at least one set; removeSet for an
\* exercise with exactly one set changes neither the draft nor the pending
\* save; and addSet, removeSet and handleSetChange change nothing of the
\* draft but the sets of the exercise they are called for.
C26_EveryExerciseKeepsASet ==
    /\ [](\A e \in DOMAIN draft.exerciseInputs :
             Len(draft.exerciseInputs[e].sets) >= 1)
    /\ [][
          /\ (/\ called'.fn = "removeSet"
              /\ Len(draft.exerciseInputs[called'.exerciseIndex].sets) = 1)
                => (draft' = draft /\ saveTimeout' = saveTimeout)
          /\ SetsEdited
                => /\ [draft' EXCEPT !.exerciseInputs = draft.exerciseInputs] = draft
                   /\ DOMAIN draft'.exerciseInputs = DOMAIN draft.exerciseInputs
                   /\ \A e \in DOMAIN draft.exerciseInputs :
                          /\ e # called'.exerciseIndex
                                => draft'.exerciseInputs[e] = draft.exerciseInputs[e]
                          /\ [draft'.exerciseInputs[e] EXCEPT
                                 !.sets = draft.exerciseInputs[e].sets]
                                = draft.exerciseInputs[e]
         ]_vars

\* removeSet was called first of all for the only set of e2, which is still
\* there
C26_Witness ==
    /\ called = [fn |-> "removeSet", exerciseIndex |-> 2, setIndex |-> 1]
    /\ edits = MaxSetEdits
    /\ Len(draft.exerciseInputs[2].sets) = 1
    /\ Len(draft.exerciseInputs[1].sets) = 2
=============================================================================
